---- MODULE Spec2Model ----
(***************************************************************************)
(* Model of the SDEverywhere model analyzer                                *)
(* (packages/compile/src/model/model.js): the variable table, refId        *)
(* assignment and resolution, spec checking, dead-code elimination,        *)
(* duplicate-declaration resolution and the aux/level dependency sort.     *)
(*                                                                         *)
(* Conventions.                                                            *)
(*  - A Variable object lives in `heap`; its identity is its index there.  *)
(*    `variables` and the values of `variablesByName` are lists of such    *)
(*    identities, as the JavaScript arrays hold object references.         *)
(*  - A JavaScript string that the code takes apart (a refId, a spec name, *)
(*    a function name) is a sequence of chunks: identifiers ("_x"), the    *)
(*    punctuation chunks "[", "," and "]", and, for a function name, its   *)
(*    leading "_" as a chunk of its own.  Two strings are equal when       *)
(*    their chunk sequences are.  A canonical varName is one identifier.   *)
(*  - 0 stands for JavaScript's undefined where an object is expected.     *)
(***************************************************************************)
EXTENDS Integers, Sequences, FiniteSets, TLC

VARIABLES
    heap,             \* every reachable Variable object allocated so far, by identity
    variables,        \* model.js `variables`: list of identities
    variablesByName,  \* model.js `variablesByName`: varName -> list of identities
    nonAtoANames,     \* model.js `nonAtoANames`: varName -> expansion flags
    spec,             \* the spec object handed to read()
    extData,          \* keys of the extData map handed to read()
    pc,               \* position inside read(), or the operation last performed
    err,              \* the error thrown, when pc = "error"
    log,              \* what console.error has printed
    sorted,           \* result of the last sortVarsOfType call
    exported,         \* the array that `export default { variables }` captured
    rebound,          \* TRUE once `variables` is bound to another array than the exported one
    constantExprs,    \* model.js `constantExprs`: expression text -> value
    inputVars,        \* model.js `inputVars`
    resets,           \* number of resetModelState calls so far
    freshNonAtoANames, \* the nonAtoANames of an analyzer created at the last reset
    info,             \* result of the last varIndexInfo call
    dims,             \* subscript module: the list allDimensions() returns
    aliases,          \* subscript module: the list allAliases() returns
    dimensionFamilies, \* spec.dimensionFamilies handed to resolveDimensions
    indices,          \* subscript module: the indices addIndex has registered
    registrations,    \* the addIndex calls made so far
    dimErrors,        \* what resolveDimensions has printed with console.error
    dpc,              \* position inside resolveDimensions
    asked,            \* the reference last handed to varWithRefId
    returned,         \* what that call returned (0 for undefined)
    initQueue,        \* sortInitVars: the queue `vars`, queueRefIds and depsMap
    poppedVar         \* sortInitVars: the variable `v` popped off the queue (0 between iterations)

\* The state of the subscript module and the position inside resolveDimensions.
dimVars == <<dims, aliases, dimensionFamilies, indices, registrations, dimErrors, dpc>>

\* The state of the model module and the position inside read().
modelVars == <<heap, variables, variablesByName, nonAtoANames, spec, extData, pc, err, log, sorted,
               exported, rebound, constantExprs, inputVars, resets, freshNonAtoANames, info>>

\* The locals of the calls made on the variable table.
callVars == <<asked, returned, initQueue, poppedVar>>

vars == <<modelVars, dimVars, callVars>>

(***************************************************************************)
(* Bounds                                                                  *)
(***************************************************************************)
MaxVars == 2

MaxDceVars == 3

MaxSortVars == 3

MaxDupVars == 2

\* Variables added per read under SpecReset, and resets per behaviour.
MaxResetVars == 2

MaxResets == 1

\* Variables added before the listing under SpecList.
MaxListVars == 3

\* Longest dimension value the expansion loop is followed to.
MaxValueLen == 4

MaxRefVars == 2

MaxInitVars == 3
\* A query that writes console.error lines is repeated while the log holds
\* fewer than MaxLog lines.
MaxLog == 2

(***************************************************************************)
(* Generic helpers                                                         *)
(***************************************************************************)
Range(s) == {s[i] : i \in 1..Len(s)}

\* Array.prototype.indexOf, 1-based; 0 when absent.
IndexOf(s, x) ==
    IF \E i \in 1..Len(s) : s[i] = x
    THEN CHOOSE i \in 1..Len(s) : s[i] = x /\ \A j \in 1..(i-1) : s[j] # x
    ELSE 0

\* JavaScript string order on the identifiers of the model ('_' sorts before
\* the lower-case letters, a prefix before its extensions).
WordOrder ==
    << "__aux1", "_a", "_b", "_c", "_d", "_final_time", "_g", "_initial_time", "_out",
       "_p", "_q", "_r", "_s", "_saveper", "_time", "_time_step", "_x", "_y" >>

WordRank(w) == IndexOf(WordOrder, w)

\* A stable sort of the list s by the integer keys k (k[i] is the key of s[i]),
\* ascending: Array.prototype.sort / R.sortBy with a comparator on the key.
SortByKeys(s, k) ==
    LET pos(i) == Cardinality({j \in 1..Len(s) : k[j] < k[i] \/ (k[j] = k[i] /\ j < i)}) + 1
    IN [p \in 1..Len(s) |-> s[CHOOSE i \in 1..Len(s) : pos(i) = p]]

(***************************************************************************)
(* Subscript table (the `subscript` module after resolveDimensions).       *)
(* Two families: _dima = (_a1, _a2) and _dimb = (_b1).                     *)
(***************************************************************************)
Dimensions == [ _dima |-> <<"_a1", "_a2">>, _dimb |-> <<"_b1">> ]

isDimension(s) == s \in DOMAIN Dimensions

isIndex(s) == \E d \in DOMAIN Dimensions : s \in Range(Dimensions[d])

\* sub(name).value for a dimension
subValue(d) == Dimensions[d]

\* sub(name).family
subFamily(s) ==
    IF isDimension(s) THEN s
    ELSE CHOOSE d \in DOMAIN Dimensions : s \in Range(Dimensions[d])

FamilyRank(s) == IF subFamily(s) = "_dima" THEN 1 ELSE 2

\* normalizeSubscripts: sort the subscripts by family name, ascending.
normalizeSubscripts(subs) ==
    SortByKeys(subs, [i \in 1..Len(subs) |-> FamilyRank(subs[i])])

\* subscriptFamilies(subscripts): the family of each subscript.
subscriptFamilies(subs) == [i \in 1..Len(subs) |-> subFamily(subs[i])]

\* indexNamesForSubscript(subscript): an index alone, the value of a dimension.
indexNamesForSubscript(s) == IF isIndex(s) THEN <<s>> ELSE subValue(s)

\* decanonicalize(name): the leading underscore is removed and every other
\* underscore becomes a space.
ModelNames ==
    [ __aux1 |-> " aux1", __level1 |-> " level1", _a |-> "a", _a1 |-> "a1", _a2 |-> "a2",
      _b |-> "b", _b1 |-> "b1", _c |-> "c", _d |-> "d", _dima |-> "dima", _dimb |-> "dimb",
      _final_time |-> "final time", _g |-> "g", _initial_time |-> "initial time",
      _out |-> "out", _p |-> "p", _q |-> "q", _r |-> "r", _s |-> "s", _saveper |-> "saveper",
      _time |-> "time", _time_step |-> "time step", _x |-> "x", _y |-> "y", _z |-> "z", _zz |-> "zz" ]

decanonicalize(name) == ModelNames[name]

(***************************************************************************)
(* Variable objects                                                        *)
(***************************************************************************)
\* new Variable(): the constructor's defaults.
Variable(varName, subscripts) ==
    [ varName |-> varName,
      subscripts |-> subscripts,
      modelLHS |-> <<>>,
      modelFormula |-> <<>>,
      refId |-> <<>>,
      varType |-> "",
      references |-> <<>>,
      initReferences |-> <<>>,
      referencedLookupVarNames |-> <<>>,
      referencedFunctionNames |-> <<>>,
      hasInitValue |-> FALSE,
      points |-> <<>> ]

hasSubscripts(v) == Len(v.subscripts) > 0

isLookup(v) == v.varType = "lookup"

(***************************************************************************)
(* Variable table queries, on a heap h and a by-name map m                 *)
(***************************************************************************)
\* variablesByName.get(key) || [] for a string key
mapGet(m, key) ==
    IF Len(key) = 1 /\ key[1] \in DOMAIN m THEN m[key[1]] ELSE <<>>

varsWithName(m, varName) == mapGet(m, varName)

varWithName(m, varName) ==
    IF Len(mapGet(m, varName)) > 0 THEN mapGet(m, varName)[1] ELSE 0

refIdsWithName(h, m, varName) ==
    [i \in 1..Len(varsWithName(m, varName)) |-> h[varsWithName(m, varName)[i]].refId]

\* varNames(): the keys of the map, sorted.
varNames(m) ==
    [p \in 1..Cardinality(DOMAIN m) |->
        CHOOSE n \in DOMAIN m :
            Cardinality({x \in DOMAIN m : WordRank(x) < WordRank(n)}) = p - 1]

\* R.find(R.propEq('refId', rid), ids)
FindByRefId(h, ids, rid) ==
    IF \E i \in 1..Len(ids) : h[ids[i]].refId = rid
    THEN ids[CHOOSE i \in 1..Len(ids) :
                /\ h[ids[i]].refId = rid
                /\ \A j \in 1..(i-1) : h[ids[j]].refId # rid]
    ELSE 0

\* rid.split('[')[0]
BeforeBracket(rid) ==
    IF IndexOf(rid, "[") = 0 THEN rid ELSE SubSeq(rid, 1, IndexOf(rid, "[") - 1)

\* R.contains('[', name)
HasBracket(name) == IndexOf(name, "[") # 0

findVarWithRefId(h, m, rid) ==
    IF FindByRefId(h, mapGet(m, rid), rid) # 0
    THEN FindByRefId(h, mapGet(m, rid), rid)
    ELSE FindByRefId(h, mapGet(m, BeforeBracket(rid)), rid)

IsWord(c) == c \notin {"[", "]", ","}

\* splitRefId: the regular expression /\w+|\[/g walks the identifiers and the
\* opening brackets; identifiers after a bracket are subscripts.
splitRefId(refId) ==
    LET open == IndexOf(refId, "[")
        outside == SelectSeq(IF open = 0 THEN refId ELSE SubSeq(refId, 1, open - 1), IsWord)
        inside == SelectSeq(IF open = 0 THEN <<>> ELSE SubSeq(refId, open + 1, Len(refId)), IsWord)
    IN [ varName |-> IF outside = <<>> THEN <<>> ELSE <<outside[Len(outside)]>>,
         subscripts |-> normalizeSubscripts(inside) ]

\* The position-by-position comparison of varWithRefId: TRUE when the
\* variant's subscripts cover the reference's.
SubscriptsMatch(subscripts, refSubscripts) ==
    \A pos \in 1..Len(subscripts) :
        LET s == subscripts[pos]
            hasRef == pos <= Len(refSubscripts)
            r == IF hasRef THEN refSubscripts[pos] ELSE "undefined"
        IN IF \/ (isIndex(s) /\ hasRef /\ isIndex(r))
              \/ (isDimension(s) /\ hasRef /\ isDimension(r))
           THEN s = r
           ELSE IF isDimension(s) /\ hasRef /\ isIndex(r)
           THEN r \in Range(subValue(s))
           ELSE FALSE

\* The split reference (parts) and the variants that match it (hits) are
\* each computed once; the loop over the variants stops at the first match.
varWithRefId(h, m, refId) ==
    IF findVarWithRefId(h, m, refId) # 0 THEN findVarWithRefId(h, m, refId)
    ELSE
        CHOOSE refVar \in
            { LET varRefIds == refIdsWithName(h, m, parts.varName)
              IN CHOOSE found \in
                     { IF hits = {} THEN 0
                       ELSE findVarWithRefId(h, m, varRefIds[CHOOSE i \in hits : \A j \in hits : i <= j])
                       : hits \in { {i \in 1..Len(varRefIds) :
                                        SubscriptsMatch(splitRefId(varRefIds[i]).subscripts,
                                                        parts.subscripts)} } } : TRUE
              : parts \in {splitRefId(refId)} } : TRUE

(***************************************************************************)
(* refIds                                                                  *)
(***************************************************************************)
isNonAtoAName(na, varName) == varName \in DOMAIN na

\* subscripts.join(',')
RECURSIVE JoinComma(_)
JoinComma(subs) ==
    IF Len(subs) = 0 THEN <<>>
    ELSE IF Len(subs) = 1 THEN <<subs[1]>>
    ELSE <<subs[1], ",">> \o JoinComma(Tail(subs))

refIdForVar(na, v) ==
    IF hasSubscripts(v) /\ isNonAtoAName(na, v.varName)
    THEN <<v.varName, "[">> \o JoinComma(v.subscripts) \o <<"]">>
    ELSE <<v.varName>>

\* areSubsEqual of findNonAtoAVars: v.subscripts[i] is undefined past the end.
SubAt(v, i) == IF i <= Len(v.subscripts) THEN v.subscripts[i] ELSE "undefined"

areSubsEqual(h, ids, i) ==
    \A k \in 1..Len(ids) : SubAt(h[ids[k]], i) = SubAt(h[ids[1]], i)

\* findNonAtoAVars: the new value of nonAtoANames.
findNonAtoAVars(h, m, na) ==
    LET multi == {n \in DOMAIN m : Len(m[n]) > 1}
    IN [n \in (DOMAIN na) \cup multi |->
          IF n \in multi
          THEN [i \in 1..Len(h[m[n][1]].subscripts) |-> ~areSubsEqual(h, m[n], i)]
          ELSE na[n]]

\* setRefIds: the heap with every listed variable's refId assigned.
setRefIds(h, vs, na) ==
    [id \in DOMAIN h |->
        IF id \in Range(vs) THEN [h[id] EXCEPT !.refId = refIdForVar(na, h[id])] ELSE h[id]]

(***************************************************************************)
(* addVariable                                                             *)
(***************************************************************************)
\* The by-name map after pushing identity id under varName.
mapPush(m, varName, id) ==
    [n \in (DOMAIN m) \cup {varName} |->
        IF n = varName
        THEN (IF n \in DOMAIN m THEN m[n] ELSE <<>>) \o <<id>>
        ELSE m[n]]

EmptyMap == [n \in {} |-> <<>>]

\* addVariable on a table [h, vs, m]: allocate the object and list it.
addVariable(t, v) ==
    [ h |-> Append(t.h, v),
      vs |-> Append(t.vs, Len(t.h) + 1),
      m |-> mapPush(t.m, v.varName, Len(t.h) + 1) ]

\* A variable as the readers leave it: name and subscripts from the equation's
\* left side, the type and the reference lists from its right side.  The text
\* of the left side is kept where a call reads it (LhsVar).
Var(varName, subscripts, varType, references, initReferences) ==
    [ Variable(varName, subscripts) EXCEPT
        !.varType = varType,
        !.references = references,
        !.initReferences = initReferences ]

\* The placeholder for the exogenous variable Time.
timeVar == [Variable("_time", <<>>) EXCEPT !.modelLHS = <<"Time">>]

(***************************************************************************)
(* The spec object                                                         *)
(***************************************************************************)
Undefined == [defined |-> FALSE, items |-> <<>>]

List(items) == [defined |-> TRUE, items |-> items]

NoSpec == [inputVars |-> Undefined, outputVars |-> Undefined]

\* TypeError: Cannot read properties of undefined (reading 'varType').
TypeError == [specType |-> "TypeError", varName |-> <<"varType">>]

NoErr == [specType |-> "", varName |-> <<>>]

(***************************************************************************)
(* checkSpecVars                                                           *)
(***************************************************************************)
\* extData?.has(varName)
extDataHas(ext, varName) == Len(varName) = 1 /\ varName[1] \in ext

\* addEquation for the lookup equation synthesized from external data:
\* the variable reader adds a variable named by the equation's left side,
\* refIdForVar names it, the equation reader makes it an aux that reads Time.
addEquation(t, na, varName) ==
    LET v == [ Variable(varName[1], <<>>) EXCEPT
                 !.modelLHS = <<decanonicalize(varName[1])>>,
                 !.modelFormula = <<"WITH LOOKUP", "(", "Time", ")">>,
                 !.varType = "aux",
                 !.references = << <<"_time">> >> ]
    IN addVariable(t, [v EXCEPT !.refId = refIdForVar(na, v)])

\* check(names, specType) from position k on: the table it leaves, or the
\* error it throws.
RECURSIVE check(_, _, _, _, _, _)
check(t, na, ext, names, specType, k) ==
    IF k > Len(names) THEN [ok |-> TRUE, t |-> t, err |-> NoErr]
    ELSE IF HasBracket(names[k]) \/ varWithRefId(t.h, t.m, names[k]) # 0
    THEN check(t, na, ext, names, specType, k + 1)
    ELSE IF extDataHas(ext, names[k])
    THEN check(addEquation(t, na, names[k]), na, ext, names, specType, k + 1)
    ELSE [ok |-> FALSE, t |-> t, err |-> [specType |-> specType, varName |-> names[k]]]

\* isIterable(varNames): a list is, undefined is not.
checkField(t, na, ext, field, specType) ==
    IF field.defined THEN check(t, na, ext, field.items, specType, 1)
    ELSE [ok |-> TRUE, t |-> t, err |-> NoErr]

\* checkSpecVars without the check of the output names.
checkSpecVars_InputsOnly(t, na, ext, sp) == checkField(t, na, ext, sp.inputVars, "input")

checkSpecVars(t, na, ext, sp) ==
    LET r1 == checkField(t, na, ext, sp.inputVars, "input")
    IN IF ~r1.ok THEN r1 ELSE checkField(r1.t, na, ext, sp.outputVars, "output")

(***************************************************************************)
(* removeUnusedVariables                                                   *)
(***************************************************************************)
Pins == {"_initial_time", "_final_time", "_saveper", "_time_step"}

\* The guard with the test of the inputs left out.
removalEnabled_OutputsOnly(sp) ==
    sp.outputVars.defined /\ Len(sp.outputVars.items) > 0

\* The guard of removeUnusedVariables: dead code is removed only with an
\* explicit set of inputs and outputs.
removalEnabled(sp) ==
    ~( \/ ~sp.outputVars.defined
       \/ Len(sp.outputVars.items) = 0
       \/ ~sp.inputVars.defined
       \/ Len(sp.inputVars.items) = 0 )

\* fnName.slice(1)
Slice1(str) == Tail(str)

\* The variables named by the functions an equation calls, lookups or not.
lookupsOfFunctions_AnyVar(h, m, fnNames) ==
    { h[varWithName(m, Slice1(fnNames[i]))].varName :
        i \in {j \in 1..Len(fnNames) : varWithName(m, Slice1(fnNames[j])) # 0} }

\* The lookups among the functions an equation calls.
lookupsOfFunctions(h, m, fnNames) ==
    { h[varWithName(m, Slice1(fnNames[i]))].varName :
        i \in {j \in 1..Len(fnNames) :
                 /\ varWithName(m, Slice1(fnNames[j])) # 0
                 /\ isLookup(h[varWithName(m, Slice1(fnNames[j]))])} }

\* recordUsedVariable: the referenced names after recording variable id.
recordUsedVariable(h, m, names, id) ==
    names \cup {h[id].varName}
          \cup Range(h[id].referencedLookupVarNames)
          \cup lookupsOfFunctions(h, m, h[id].referencedFunctionNames)

\* pushRefs(v)
pushRefs(h, m, id) ==
    refIdsWithName(h, m, <<h[id].varName>>) \o h[id].references \o h[id].initReferences

\* The while loop of recordRefsOfVariable on the stack refStack, with
\* d = [names, refIds, ok, missing]: the names and refIds recorded so far.
RECURSIVE walkRefs(_, _, _, _)
walkRefs(h, m, d, refStack) ==
    IF refStack = <<>> THEN d
    ELSE
        LET refId == refStack[Len(refStack)]
            rest == SubSeq(refStack, 1, Len(refStack) - 1)
            refVar == varWithRefId(h, m, refId)
        IN IF refId \in d.refIds THEN walkRefs(h, m, d, rest)
           ELSE IF refVar = 0
           THEN [d EXCEPT !.refIds = @ \cup {refId}, !.ok = FALSE, !.missing = refId]
           ELSE walkRefs(h, m,
                         [d EXCEPT !.refIds = @ \cup {refId},
                                   !.names = recordUsedVariable(h, m, @, refVar)],
                         rest \o pushRefs(h, m, refVar))

recordRefsOfVariable(h, m, d, id) == walkRefs(h, m, d, pushRefs(h, m, id))

\* The loop over the variables named by one input: each is recorded.
RECURSIVE recordInputVars(_, _, _, _, _)
recordInputVars(h, m, d, ids, k) ==
    IF k > Len(ids) THEN d
    ELSE recordInputVars(h, m, [d EXCEPT !.names = recordUsedVariable(h, m, @, ids[k])], ids, k + 1)

RECURSIVE recordInputs(_, _, _, _, _)
recordInputs(h, m, d, inputs, k) ==
    IF k > Len(inputs) THEN d
    ELSE recordInputs(h, m, recordInputVars(h, m, d, varsWithName(m, inputs[k]), 1), inputs, k + 1)

\* The loop over the variables named by one output: each is recorded and
\* its reference tree walked; a thrown error ends the loop.
RECURSIVE recordOutputVars(_, _, _, _, _)
recordOutputVars(h, m, d, ids, k) ==
    IF k > Len(ids) \/ ~d.ok THEN d
    ELSE recordOutputVars(h, m,
            recordRefsOfVariable(h, m,
                [d EXCEPT !.names = recordUsedVariable(h, m, @, ids[k])], ids[k]),
            ids, k + 1)

RECURSIVE recordOutputs(_, _, _, _, _)
recordOutputs(h, m, d, outputs, k) ==
    IF k > Len(outputs) \/ ~d.ok THEN d
    ELSE recordOutputs(h, m,
            recordOutputVars(h, m, d, varsWithName(m, BeforeBracket(outputs[k])), 1),
            outputs, k + 1)

\* referencedVarNames (and referencedRefIds) when the loops are done.
referencedVarNames(h, m, sp) ==
    recordOutputs(h, m,
        recordInputs(h, m,
            [names |-> Pins, refIds |-> {}, ok |-> TRUE, missing |-> <<>>],
            sp.inputVars.items, 1),
        sp.outputVars.items, 1)

\* R.filter on a list of identities
filterIds(h, ids, keep) == SelectSeq(ids, LAMBDA id : h[id].varName \in keep)

\* The by-name map rebuilt from a list of identities.
rebuildByName(h, ids) ==
    [n \in {h[ids[i]].varName : i \in 1..Len(ids)} |->
        SelectSeq(ids, LAMBDA id : h[id].varName = n)]

\* removeUnusedVariables: the table it leaves and whether it returned.
removeUnusedVariables(t, sp) ==
    IF ~removalEnabled(sp) THEN [ok |-> TRUE, t |-> t, missing |-> <<>>]
    ELSE
        LET d == referencedVarNames(t.h, t.m, sp)
            kept == filterIds(t.h, t.vs, d.names)
        IN IF ~d.ok THEN [ok |-> FALSE, t |-> t, missing |-> d.missing]
           ELSE [ok |-> TRUE,
                 t |-> [h |-> t.h, vs |-> kept, m |-> rebuildByName(t.h, kept)],
                 missing |-> <<>>]

(***************************************************************************)
(* Lists of variables by type                                              *)
(***************************************************************************)
\* varsOfType(varType, vars): the placeholder _time is never listed.
varsOfType(h, varType, ids) ==
    SelectSeq(ids, LAMBDA id : id # 0 /\ h[id].varType = varType /\ h[id].varName # "_time")

\* vsort: a list of variables in name order.
vsort(h, ids) == SortByKeys(ids, [i \in 1..Len(ids) |-> WordRank(h[ids[i]].varName)])

constVars(h, vs) == vsort(h, varsOfType(h, "const", vs))

dataVars(h, vs) == vsort(h, varsOfType(h, "data", vs))

(***************************************************************************)
(* parseFloat on a formula given character by character.  A number is      *)
(* [nan, inf, neg, mant, exp]: NaN, (-1)^neg * Infinity, or the double     *)
(* nearest to (-1)^neg * mant * 10^exp, with mant free of trailing zeros.  *)
(* An integer of the model holds ten digits, and two decimals of that      *)
(* length in the range of the normal doubles denote different doubles.     *)
(***************************************************************************)
Digits == <<"0", "1", "2", "3", "4", "5", "6", "7", "8", "9">>

IsDigit(c) == IndexOf(Digits, c) # 0

DigitValue(c) == IndexOf(Digits, c) - 1

NaN == [nan |-> TRUE, inf |-> FALSE, neg |-> FALSE, mant |-> 0, exp |-> 0]

Number(neg, mant, exp) == [nan |-> FALSE, inf |-> FALSE, neg |-> neg, mant |-> mant, exp |-> exp]

Infinity(neg) == [nan |-> FALSE, inf |-> TRUE, neg |-> neg, mant |-> 0, exp |-> 0]

\* StrWhiteSpaceChar, the white space and the line terminators that
\* parseFloat skips: space, tab, line feed, carriage return, form feed,
\* vertical tab, no-break space, byte order mark and ogham space mark.  The
\* other space separators (U+2000 to U+200A, U+2028, U+2029, U+202F, U+205F,
\* U+3000) cannot be written in a string of this module.
StrWhiteSpaceChar == {" ", "\t", "\n", "\r", "\f", "", " ", "﻿", " "}

InfinityText == <<"I", "n", "f", "i", "n", "i", "t", "y">>

\* The position after the run of characters satisfying the test that starts at i.
RECURSIVE RunEnd(_, _, _)
RunEnd(str, i, set) ==
    IF i <= Len(str) /\ str[i] \in set THEN RunEnd(str, i + 1, set) ELSE i

RECURSIVE DigitsValue(_)
DigitsValue(str) ==
    IF str = <<>> THEN 0
    ELSE 10 * DigitsValue(SubSeq(str, 1, Len(str) - 1)) + DigitValue(str[Len(str)])

RECURSIVE Normalize(_, _, _)
Normalize(neg, mant, exp) ==
    IF mant = 0 THEN Number(neg, 0, 0)
    ELSE IF mant % 10 = 0 THEN Normalize(neg, mant \div 10, exp + 1)
    ELSE Number(neg, mant, exp)

RECURSIVE DigitCount(_)
DigitCount(n) == IF n < 10 THEN 1 ELSE 1 + DigitCount(n \div 10)

RECURSIVE Pow10(_)
Pow10(k) == IF k = 0 THEN 1 ELSE 10 * Pow10(k - 1)

\* The double a decimal rounds to.  With d digits in mant the magnitude is
\* in [10^o, 10^(o+1)) for o = exp + d - 1.  A magnitude of 2^1024 - 2^970
\* (1.7976931348623158e308) or more rounds to Infinity, one of 2^-1075
\* (2.4703282292062327e-324) or less to zero; `lead` is the first nine
\* digits of the magnitude.
roundToDouble(neg, mant, exp) ==
    LET n == Normalize(neg, mant, exp)
        d == DigitCount(n.mant)
        o == n.exp + d - 1
        lead == IF d <= 9 THEN n.mant * Pow10(9 - d) ELSE n.mant \div Pow10(d - 9)
        tooLarge == \/ o > 308
                    \/ /\ o = 308
                       /\ \/ lead > 179769313
                          \/ lead = 179769313 /\ d = 10 /\ n.mant % 10 >= 5
        tooSmall == o < -324 \/ (o = -324 /\ lead <= 247032822)
    IN IF n.mant = 0 THEN n
       ELSE IF tooLarge THEN Infinity(neg)
       ELSE IF tooSmall THEN Number(neg, 0, 0)
       ELSE n

parseFloat(str) ==
    LET digitSet == Range(Digits)
        start == RunEnd(str, 1, StrWhiteSpaceChar)
        signed == start <= Len(str) /\ str[start] \in {"+", "-"}
        neg == signed /\ str[start] = "-"
        i0 == IF signed THEN start + 1 ELSE start
        isInfinity == /\ i0 + Len(InfinityText) - 1 <= Len(str)
                      /\ SubSeq(str, i0, i0 + Len(InfinityText) - 1) = InfinityText
        i1 == RunEnd(str, i0, digitSet)
        hasDot == i1 <= Len(str) /\ str[i1] = "."
        f0 == IF hasDot THEN i1 + 1 ELSE i1
        f1 == RunEnd(str, f0, digitSet)
        intDigits == SubSeq(str, i0, i1 - 1)
        fracDigits == SubSeq(str, f0, f1 - 1)
        hasE == f1 <= Len(str) /\ str[f1] \in {"e", "E"}
        eSigned == hasE /\ f1 + 1 <= Len(str) /\ str[f1 + 1] \in {"+", "-"}
        e0 == IF eSigned THEN f1 + 2 ELSE f1 + 1
        e1 == IF hasE THEN RunEnd(str, e0, digitSet) ELSE e0
        hasExp == hasE /\ e1 > e0
        expVal == IF ~hasExp THEN 0
                  ELSE IF eSigned /\ str[f1 + 1] = "-"
                  THEN 0 - DigitsValue(SubSeq(str, e0, e1 - 1))
                  ELSE DigitsValue(SubSeq(str, e0, e1 - 1))
    IN IF isInfinity THEN Infinity(neg)
       ELSE IF intDigits = <<>> /\ fracDigits = <<>> THEN NaN
       ELSE roundToDouble(neg, DigitsValue(intDigits \o fracDigits), expVal - Len(fracDigits))

isNaN(x) == x.nan

(***************************************************************************)
(* resolveDuplicateDeclarations                                            *)
(***************************************************************************)
MIN_SAFE_DBL == Number(TRUE, 1, 308)

MAX_SAFE_DBL == Number(FALSE, 1, 308)

\* The test for a data sibling without the comparison of the names.
hasDataSibling_AnyData(h, data, id) == Len(data) > 0

\* data.find(d => d.varName === constVar.varName)
hasDataSibling(h, data, id) ==
    \E i \in 1..Len(data) : h[data[i]].varName = h[id].varName

\* The body of the loop for one const variable with a data sibling.
constToData(v) ==
    [v EXCEPT !.varType = "data",
              !.points = << <<MIN_SAFE_DBL, parseFloat(v.modelFormula)>>,
                            <<MAX_SAFE_DBL, parseFloat(v.modelFormula)>> >>]

\* The heap after the loop over constVars().
resolveDuplicateDeclarations(h, vs) ==
    LET data == dataVars(h, vs)
        consts == Range(constVars(h, vs))
    IN [id \in DOMAIN h |->
          IF id \in consts /\ hasDataSibling(h, data, id) THEN constToData(h[id]) ELSE h[id]]

\* The console.error lines of the loop, in the order of constVars().
resolveDuplicateLog(h, vs) ==
    LET data == dataVars(h, vs)
        hit == SelectSeq(constVars(h, vs),
                         LAMBDA id : hasDataSibling(h, data, id) /\ isNaN(parseFloat(h[id].modelFormula)))
    IN [i \in 1..Len(hit) |-> [msg |-> "const var converted to a lookup is NaN", refId |-> h[hit[i]].refId]]

(***************************************************************************)
(* toposort (toposort.js): an order of the nodes of the graph in which a   *)
(* comes before b for every edge (a, b); a cyclic graph has none and is a  *)
(* fatal error.  Every such order is allowed.                              *)
(***************************************************************************)
Nodes(graph) == {graph[i][1] : i \in 1..Len(graph)} \cup {graph[i][2] : i \in 1..Len(graph)}

\* The nodes of S that no edge from a node of S enters.
Sources(graph, S) ==
    {x \in S : ~\E i \in 1..Len(graph) : graph[i][2] = x /\ graph[i][1] \in S}

RECURSIVE OrdersOf(_, _)
OrdersOf(graph, S) ==
    IF S = {} THEN {<<>>}
    ELSE UNION { {<<x>> \o o : o \in OrdersOf(graph, S \ {x})} : x \in Sources(graph, S) }

toposort(graph) == OrdersOf(graph, Nodes(graph))

isCyclic(graph) == toposort(graph) = {}

Reverse(s) == [i \in 1..Len(s) |-> s[Len(s) + 1 - i]]

(***************************************************************************)
(* sortVarsOfType                                                          *)
(***************************************************************************)
\* R.uniq: the first copy of each element (R.equals compares by value).
uniq(h, ids) ==
    SelectSeq([i \in 1..Len(ids) |-> IF \E j \in 1..(i-1) : h[ids[j]] = h[ids[i]] THEN 0 ELSE ids[i]],
              LAMBDA id : id # 0)

\* The dependency pair for variable v and the variable ref it reads.
edgeFor(h, v, ref) ==
    IF h[v].varType = "level" /\ h[ref].varType = "level"
    THEN <<h[ref].refId, h[v].refId>>
    ELSE <<h[v].refId, h[ref].refId>>

\* refs(v): the dependency pairs of v at eval time.
refs(h, m, varType, v) ==
    LET all == [i \in 1..Len(h[v].references) |-> varWithRefId(h, m, h[v].references[i])]
        typed == uniq(h, SelectSeq(all, LAMBDA r : r # 0 /\ h[r].varType = varType))
    IN [i \in 1..Len(typed) |-> edgeFor(h, v, typed[i])]

\* R.unnest(R.map(refs, vars))
RECURSIVE unnestRefs(_, _, _, _, _)
unnestRefs(h, m, varType, ids, k) ==
    IF k > Len(ids) THEN <<>>
    ELSE refs(h, m, varType, ids[k]) \o unnestRefs(h, m, varType, ids, k + 1)

depsGraph(h, vs, m, varType) == unnestRefs(h, m, varType, varsOfType(h, varType, vs), 1)

\* The list sortVarsOfType returns when toposort answers `order`.
sortVarsOfType(h, vs, m, varType, order) ==
    LET typed == varsOfType(h, varType, vs)
        deps == Reverse(order)
        sortedVars == varsOfType(h, varType, [i \in 1..Len(deps) |-> varWithRefId(h, m, deps[i])])
        sortedVarRefIds == {h[sortedVars[i]].refId : i \in 1..Len(sortedVars)}
        nodepVars == SelectSeq(typed, LAMBDA id : h[id].refId \notin sortedVarRefIds)
    IN vsort(h, nodepVars) \o sortedVars

\* Every reference of the variables of the type names a variable: R.propEq
\* of refs(v) reads varType of each.  varsOfType then reads varType of the
\* variable of every node of the graph (depsResolve).
refsResolve(h, vs, m, varType) ==
    \A id \in Range(varsOfType(h, varType, vs)) :
        \A i \in 1..Len(h[id].references) : varWithRefId(h, m, h[id].references[i]) # 0

(***************************************************************************)
(* sortInitVars                                                            *)
(***************************************************************************)
lookupVars(h, vs) == vsort(h, varsOfType(h, "lookup", vs))

\* depsMap.get(key) is set.
depsHas(depsMap, key) == \E i \in 1..Len(depsMap) : depsMap[i].key = key

\* depsMap.set(key, deps): a Map keeps the position of a key it already holds.
depsSet(depsMap, key, deps) ==
    IF depsHas(depsMap, key)
    THEN [i \in 1..Len(depsMap) |->
             IF depsMap[i].key = key THEN [key |-> key, deps |-> deps] ELSE depsMap[i]]
    ELSE Append(depsMap, [key |-> key, deps |-> deps])

\* The R.forEach of addDepsToMap from reference k on: a referenced variable
\* that is no const and not in the queue is pushed on the queue.
\* refVar = Model.varWithRefId(refId) is looked up once per reference.
RECURSIVE pushDeps(_, _, _, _, _)
pushDeps(h, m, refIds, k, q) ==
    IF k > Len(refIds) THEN q
    ELSE CHOOSE r \in
           { IF /\ ~depsHas(q.depsMap, refIds[k])
                /\ refVar # 0
                /\ h[refVar].varType # "const"
                /\ h[refVar].refId \notin q.queueRefIds
             THEN pushDeps(h, m, refIds, k + 1,
                           [q EXCEPT !.vars = Append(@, refVar),
                                     !.queueRefIds = @ \cup {h[refVar].refId}])
             ELSE pushDeps(h, m, refIds, k + 1, q)
             : refVar \in {varWithRefId(h, m, refIds[k])} } : TRUE

addDepsToMap(h, m, q, v) ==
    LET refIds == IF h[v].hasInitValue THEN h[v].initReferences ELSE h[v].references
    IN IF Len(refIds) > 0
       THEN pushDeps(h, m, refIds, 1, [q EXCEPT !.depsMap = depsSet(@, h[v].refId, refIds)])
       ELSE q

\* The console.error lines of addDepsToMap(v): a reference that is no key
\* of depsMap and names no variable.
addDepsLog(h, m, q, v) ==
    LET refIds == IF h[v].hasInitValue THEN h[v].initReferences ELSE h[v].references
        depsMap == depsSet(q.depsMap, h[v].refId, refIds)
        missing == SelectSeq(refIds, LAMBDA refId : ~depsHas(depsMap, refId) /\ varWithRefId(h, m, refId) = 0)
    IN [i \in 1..Len(missing) |->
           [msg |-> "no var with refId", refId |-> missing[i], referencedBy |-> h[v].refId]]

\* while (vars.length > 0): the console.error lines of the whole loop.
RECURSIVE drainLog(_, _, _)
drainLog(h, m, q) ==
    IF q.vars = <<>> THEN <<>>
    ELSE LET v == q.vars[Len(q.vars)]
             popped == [q EXCEPT !.vars = SubSeq(@, 1, Len(@) - 1),
                                 !.queueRefIds = @ \ {h[v].refId}]
         IN CHOOSE r \in {addDepsLog(h, m, popped, v) \o drainLog(h, m, next) :
                              next \in {addDepsToMap(h, m, popped, v)}} : TRUE

\* while (vars.length > 0): the depsMap once the queue is empty.
RECURSIVE drainQueue(_, _, _)
drainQueue(h, m, q) ==
    IF q.vars = <<>> THEN q.depsMap
    ELSE LET v == q.vars[Len(q.vars)]
             popped == [q EXCEPT !.vars = SubSeq(@, 1, Len(@) - 1),
                                 !.queueRefIds = @ \ {h[v].refId}]
         IN CHOOSE r \in {drainQueue(h, m, next) : next \in {addDepsToMap(h, m, popped, v)}} : TRUE

\* The variables with an init value, in table order.
initVarsOf(h, vs) == SelectSeq(vs, LAMBDA id : h[id].hasInitValue)

RECURSIVE graphOfDeps(_, _)
graphOfDeps(depsMap, k) ==
    IF k > Len(depsMap) THEN <<>>
    ELSE [i \in 1..Len(depsMap[k].deps) |-> <<depsMap[k].key, depsMap[k].deps[i]>>]
            \o graphOfDeps(depsMap, k + 1)

\* The queue when the while loop starts.
initialQueue(h, vs) ==
    LET initVars == initVarsOf(h, vs)
    IN [ vars |-> initVars,
         queueRefIds |-> {h[initVars[i]].refId : i \in 1..Len(initVars)},
         depsMap |-> <<>> ]

\* The dependency graph sortInitVars hands to toposort.
initGraph(h, vs, m) == graphOfDeps(drainQueue(h, m, initialQueue(h, vs)), 1)

\* What sortInitVars prints with console.error.
initLog(h, vs, m) == drainLog(h, m, initialQueue(h, vs))

\* R.map(varWithRefId, deps) finds a variable for every node of the graph;
\* R.reject(R.propSatisfies(.., 'varType')) throws a TypeError on undefined.
depsResolve(h, m, graph) ==
    \A i \in 1..Len(graph) : \A j \in 1..2 : varWithRefId(h, m, graph[i][j]) # 0

\* The list sortInitVars returns when toposort answers `order`.
sortInitVars(h, vs, m, order) ==
    LET initVars == initVarsOf(h, vs)
        deps == Reverse(order)
        found == [i \in 1..Len(deps) |-> varWithRefId(h, m, deps[i])]
        sortedVars == SelectSeq(found, LAMBDA id : h[id].varType \notin {"const", "lookup", "data"})
        sortedVarRefIds == {h[sortedVars[i]].refId : i \in 1..Len(sortedVars)}
        nodepVars == SelectSeq(initVars, LAMBDA id : h[id].refId \notin sortedVarRefIds)
    IN vsort(h, nodepVars) \o sortedVars

(***************************************************************************)
(* allListedVars, varIndexInfoMap, varIndexInfo                            *)
(***************************************************************************)
\* v.refId.startsWith('__level') || v.refId.startsWith('__aux'), on the
\* identifiers of the model.
isInternal(h, id) == h[id].refId # <<>> /\ h[id].refId[1] \in {"__level1", "__aux1"}

\* The listing when the two topological sorts answer initOrder and auxOrder.
allListedVars(h, vs, m, initOrder, auxOrder) ==
    LET timeVars == IF varWithName(m, <<"_time">>) # 0 THEN <<varWithName(m, <<"_time">>)>> ELSE <<>>
        all == constVars(h, vs) \o lookupVars(h, vs) \o dataVars(h, vs) \o timeVars
                 \o sortInitVars(h, vs, m, initOrder)
                 \o sortVarsOfType(h, vs, m, "aux", auxOrder)
    IN SelectSeq(all, LAMBDA id : ~isInternal(h, id))

\* filterVar: the fields of the listing that varIndexInfoMap reads.
filterVar(v) ==
    [ refId |-> v.refId,
      varName |-> v.varName,
      varType |-> v.varType,
      families |-> [i \in 1..Len(v.subscripts) |-> subFamily(v.subscripts[i])] ]

filteredListedVars(h, listed) == [i \in 1..Len(listed) |-> filterVar(h[listed[i]])]

\* The loop of varIndexInfoMap from variable k on; acc holds the entries in
\* insertion order and the next index.
RECURSIVE infoLoop(_, _, _, _)
infoLoop(sortedVars, k, acc, omitted) ==
    IF k > Len(sortedVars) THEN acc
    ELSE LET v == sortedVars[k]
         IN IF v.varType \in omitted
            THEN infoLoop(sortedVars, k + 1, acc, omitted)
            ELSE IF \E i \in 1..Len(acc.entries) : acc.entries[i].varName = v.varName
            THEN infoLoop(sortedVars, k + 1, acc, omitted)
            ELSE CHOOSE r \in {infoLoop(sortedVars, k + 1, next, omitted) :
                                   next \in {[ entries |-> Append(acc.entries,
                                                                  [ varName |-> v.varName,
                                                                    varIndex |-> acc.varIndex,
                                                                    subscriptCount |-> Len(v.families) ]),
                                               varIndex |-> acc.varIndex + 1 ]}} : TRUE

\* varIndexInfoMap that gives data and lookup variables an index as well.
varIndexInfoMap_NothingOmitted(sortedVars) ==
    infoLoop(sortedVars, 1, [entries |-> <<>>, varIndex |-> 1], {}).entries

\* varIndexInfoMap: the entries of the map in insertion order.
varIndexInfoMap(sortedVars) ==
    infoLoop(sortedVars, 1, [entries |-> <<>>, varIndex |-> 1], {"data", "lookup"}).entries

\* varIndexInfo: Array.from(varIndexInfoMap().values())
varIndexInfo(sortedVars) == varIndexInfoMap(sortedVars)

(***************************************************************************)
(* The steps of read()                                                     *)
(***************************************************************************)
Table == [h |-> heap, vs |-> variables, m |-> variablesByName]

\* variables.push(v) reaches the exported array as long as `variables` is
\* still bound to it.
SetTable(t) ==
    /\ heap' = t.h
    /\ variables' = t.vs
    /\ variablesByName' = t.m
    /\ exported' = IF rebound THEN exported ELSE t.vs

\* The subscript module once resolveDimensions has returned; the table of
\* its dimensions is Dimensions.
DimsResolved ==
    /\ dims = <<>>
    /\ aliases = <<>>
    /\ dimensionFamilies = [d \in {} |-> ""]
    /\ indices = [x \in {} |-> 0]
    /\ registrations = <<>>
    /\ dimErrors = <<>>
    /\ dpc = "resolved"

\* The module-level storage of model.js when the module is loaded.
InitModule ==
    /\ heap = <<>>
    /\ variables = <<>>
    /\ variablesByName = EmptyMap
    /\ nonAtoANames = [n \in {} |-> <<>>]
    /\ spec = NoSpec
    /\ extData = {}
    /\ pc = "reading"
    /\ err = NoErr
    /\ log = <<>>
    /\ sorted = <<>>
    /\ exported = <<>>
    /\ rebound = FALSE
    /\ constantExprs = [e \in {} |-> 0]
    /\ inputVars = <<>>
    /\ resets = 0
    /\ freshNonAtoANames = [n \in {} |-> <<>>]
    /\ info = <<>>

\* No call has been made on the model yet.
NoCalls ==
    /\ asked = <<>>
    /\ returned = 0
    /\ initQueue = [vars |-> <<>>, queueRefIds |-> {}, depsMap |-> <<>>]
    /\ poppedVar = 0

InitState == InitModule /\ DimsResolved /\ NoCalls

\* The exported functions have no precondition: each can be called before a
\* read, on the table a read has left wherever it returned or threw, and
\* after any other call.  No call is made on the model while the loop of
\* sortInitVars runs: the loop is one synchronous call, followed here
\* iteration by iteration.
NoCallRunning == pc # "initQueue"

\* Model.addVariable(v), called by the variable reader for each equation.
\* The function has no precondition: called once a read or a query has
\* returned or thrown, it adds to the table that call left, and the table
\* is being read again.  The list holds fewer than max variables, and a
\* table that a call has left is added to while no more than max + 1
\* objects were created.
AddVariable(v, max) ==
    /\ NoCallRunning
    /\ Len(variables) < max
    /\ pc = "reading" \/ Len(heap) <= max + 1
    /\ SetTable(addVariable(Table, v))
    /\ pc' = "reading"
    /\ UNCHANGED <<nonAtoANames, spec, extData, err, log, sorted, rebound, constantExprs, inputVars, resets, freshNonAtoANames, info, dimVars, callVars>>

\* The bound on a table that a call has thrown on: it takes one variable
\* more than a table that is read for the first time.
AfterThrow(max) == IF pc = "error" THEN max + 1 ELSE max

\* The end of readVariables: the Time placeholder is added.
EndReadVariables ==
    /\ pc = "reading"
    /\ SetTable(addVariable(Table, timeVar))
    /\ pc' = "read"
    /\ UNCHANGED <<nonAtoANames, spec, extData, err, log, sorted, rebound, constantExprs, inputVars, resets, freshNonAtoANames, info, dimVars, callVars>>

\* read() from the spec's input/output names to the end of analyze():
\* findNonAtoAVars, then setRefIds.  The equation-derived fields are those
\* the variable was added with.
Analyze(sp) ==
    /\ pc = "read"
    /\ spec' = sp
    /\ inputVars' = IF sp.inputVars.defined THEN sp.inputVars.items ELSE inputVars
    /\ nonAtoANames' = findNonAtoAVars(heap, variablesByName, nonAtoANames)
    /\ freshNonAtoANames' = findNonAtoAVars(heap, variablesByName, freshNonAtoANames)
    /\ heap' = setRefIds(heap, variables, nonAtoANames')
    /\ pc' = "analyzed"
    /\ UNCHANGED <<variables, variablesByName, extData, err, log, sorted, exported, rebound, constantExprs, resets, info, dimVars, callVars>>

CheckSpecVars(ext) ==
    /\ pc = "analyzed"
    /\ extData' = ext
    /\ LET r == checkSpecVars(Table, nonAtoANames, ext, spec)
       IN /\ SetTable(r.t)
          /\ err' = r.err
          /\ pc' = IF r.ok THEN "checked" ELSE "error"
    /\ UNCHANGED <<nonAtoANames, spec, log, sorted, rebound, constantExprs, inputVars, resets, freshNonAtoANames, info, dimVars, callVars>>

RemoveUnusedVariables ==
    /\ pc = "checked"
    /\ LET r == removeUnusedVariables(Table, spec)
       IN /\ heap' = r.t.h
          /\ variables' = r.t.vs
          /\ variablesByName' = r.t.m
          /\ rebound' = (rebound \/ (r.ok /\ removalEnabled(spec)))
          /\ err' = IF r.ok THEN err ELSE [specType |-> "reference", varName |-> r.missing]
          /\ pc' = IF r.ok THEN "removed" ELSE "error"
    /\ UNCHANGED <<nonAtoANames, spec, extData, log, sorted, exported, constantExprs, inputVars, resets, freshNonAtoANames, info, dimVars, callVars>>

ResolveDuplicateDeclarations ==
    /\ pc = "removed"
    /\ heap' = resolveDuplicateDeclarations(heap, variables)
    /\ log' = log \o resolveDuplicateLog(heap, variables)
    /\ pc' = "done"
    /\ UNCHANGED <<variables, variablesByName, nonAtoANames, spec, extData, err, sorted, exported, rebound, constantExprs, inputVars, resets, freshNonAtoANames, info, dimVars, callVars>>

\* auxVars() and levelVars(), on the table as it is when they are called.
SortVarsOfType(varType) ==
    /\ NoCallRunning
    /\ \E graph \in {depsGraph(heap, variables, variablesByName, varType)} :
       \E refsThrow \in {~refsResolve(heap, variables, variablesByName, varType)},
          depsThrow \in {~depsResolve(heap, variablesByName, graph)} :
          \/ /\ refsThrow \/ isCyclic(graph) \/ depsThrow
             /\ pc' = "error"
             /\ err' = IF ~refsThrow /\ isCyclic(graph)
                       THEN [specType |-> "cycle", varName |-> <<varType>>]
                       ELSE TypeError
             /\ sorted' = <<>>
          \/ /\ ~refsThrow /\ ~depsThrow
             /\ \E order \in toposort(graph) :
                   /\ pc' = IF varType = "aux" THEN "auxVars" ELSE "levelVars"
                   /\ err' = err
                   /\ sorted' = sortVarsOfType(heap, variables, variablesByName, varType, order)
    /\ UNCHANGED <<heap, variables, variablesByName, nonAtoANames, spec, extData, log, exported, rebound, constantExprs, inputVars, resets, freshNonAtoANames, info, dimVars, callVars>>

\* varIndexInfo(), on the table as it is when it is called: the listing is
\* stored in `sorted`, the entries in `info`.
VarIndexInfo ==
    /\ NoCallRunning
    /\ pc = "done" \/ Len(log) < MaxLog
    /\ log' = log \o initLog(heap, variables, variablesByName)
    /\ \E ig \in {initGraph(heap, variables, variablesByName)},
          ag \in {depsGraph(heap, variables, variablesByName, "aux")},
          initThrows \in {~depsResolve(heap, variablesByName, initGraph(heap, variables, variablesByName))},
          auxThrows \in {~refsResolve(heap, variables, variablesByName, "aux")},
          auxDepsThrow \in {~depsResolve(heap, variablesByName,
                                         depsGraph(heap, variables, variablesByName, "aux"))} :
          \/ /\ isCyclic(ig) \/ initThrows \/ auxThrows \/ isCyclic(ag) \/ auxDepsThrow
             /\ pc' = "error"
             /\ err' = IF \/ isCyclic(ig)
                          \/ ~initThrows /\ ~auxThrows /\ isCyclic(ag)
                       THEN [specType |-> "cycle", varName |-> <<"listing">>]
                       ELSE TypeError
             /\ UNCHANGED <<sorted, info>>
          \/ /\ ~initThrows /\ ~auxThrows /\ ~auxDepsThrow
             /\ \E initOrder \in toposort(ig), auxOrder \in toposort(ag) :
                \E listed \in {allListedVars(heap, variables, variablesByName, initOrder, auxOrder)} :
                   /\ sorted' = listed
                   /\ info' = varIndexInfo(filteredListedVars(heap, listed))
                   /\ pc' = "varIndexInfo"
                   /\ err' = err
    /\ UNCHANGED <<heap, variables, variablesByName, nonAtoANames, spec, extData,
                   exported, rebound, constantExprs, inputVars, resets, freshNonAtoANames,
                   dimVars, callVars>>

(***************************************************************************)
(* SpecCheck: reading, analysis and the spec check on small tables of      *)
(* scalars, apply-to-all arrays and non-apply-to-all variants.             *)
(***************************************************************************)
CheckVarNames == {"_x", "_y"}

CheckSubscripts == { <<>>, <<"_a1">>, <<"_a2">>, <<"_dima">> }

CheckVarDomain ==
    { Var(n, s, "aux", <<>>, <<>>) : n \in CheckVarNames, s \in CheckSubscripts }

CheckInputLists ==
    { Undefined, List(<<>>), List(<< <<"_x">> >>), List(<< <<"_g">> >>) }

CheckOutputLists ==
    { Undefined, List(<<>>), List(<< <<"_y">> >>), List(<< <<"_g">> >>),
      List(<< <<"_x">>, <<"_y">> >>), List(<< <<"_y", "[", "0", "]">> >>) }

CheckSpecs ==
    { [inputVars |-> i, outputVars |-> o] : i \in CheckInputLists, o \in CheckOutputLists }

CheckExtData == { {}, {"_g"}, {"_y"} }

CheckAddVariable == \E v \in CheckVarDomain : AddVariable(v, AfterThrow(MaxVars))

CheckAnalyze == \E sp \in CheckSpecs : Analyze(sp)

CheckCheckSpecVars == \E ext \in CheckExtData : CheckSpecVars(ext)

NextCheck ==
    \/ CheckAddVariable
    \/ EndReadVariables
    \/ CheckAnalyze
    \/ CheckCheckSpecVars

SpecCheck == InitState /\ [][NextCheck]_vars

(***************************************************************************)
(* Spec: the whole of read() on models with a pin (_saveper), an input     *)
(* (_a), an output (_out), an intermediate array (_b) and a leaf (_c)      *)
(* that is a lookup or an aux.                                             *)
(***************************************************************************)
\* An equation whose right side calls lookups or functions.
VarCalling(varName, lookupNames, functionNames) ==
    [ Var(varName, <<>>, "aux", <<>>, <<>>) EXCEPT
        !.referencedLookupVarNames = lookupNames,
        !.referencedFunctionNames = functionNames ]

DceVarDomain ==
    { Var("_saveper", <<>>, "aux", << <<"_c">> >>, <<>>),
      Var("_a", <<>>, "aux", << <<"_c">> >>, <<>>),
      Var("_a", <<>>, "const", <<>>, <<>>),
      Var("_out", <<>>, "aux", << <<"_b">> >>, <<>>),
      Var("_out", <<>>, "level", <<>>, << <<"_b", "[", "_a1", "]">> >>),
      VarCalling("_out", <<"_c">>, <<>>),
      VarCalling("_out", <<>>, << <<"_", "_c">> >>),
      Var("_b", <<>>, "aux", << <<"_c">> >>, <<>>),
      Var("_b", <<"_a1">>, "aux", << <<"_c">> >>, <<>>),
      Var("_b", <<"_a2">>, "aux", <<>>, <<>>),
      Var("_c", <<>>, "lookup", <<>>, <<>>),
      Var("_c", <<>>, "aux", <<>>, <<>>) }

DceSpecs ==
    { [inputVars |-> Undefined, outputVars |-> List(<< <<"_out">> >>)],
      [inputVars |-> List(<<>>), outputVars |-> List(<< <<"_out">> >>)],
      [inputVars |-> List(<< <<"_a">> >>), outputVars |-> Undefined],
      [inputVars |-> List(<< <<"_a">> >>), outputVars |-> List(<<>>)],
      [inputVars |-> List(<< <<"_a">> >>), outputVars |-> List(<< <<"_out">> >>)],
      [inputVars |-> List(<< <<"_a">> >>), outputVars |-> List(<< <<"_out", "[", "0", "]">> >>)],
      [inputVars |-> List(<< <<"_out">> >>), outputVars |-> List(<< <<"_out">> >>)] }

\* The names an equation records as lookups are lookup variables.
lookupNamesAreLookups(h, vs, m) ==
    \A id \in Range(vs) : \A n \in Range(h[id].referencedLookupVarNames) :
        \A i \in 1..Len(varsWithName(m, <<n>>)) : isLookup(h[varsWithName(m, <<n>>)[i]])

DceAddVariable == \E v \in DceVarDomain : AddVariable(v, AfterThrow(MaxDceVars))

DceAnalyze ==
    /\ lookupNamesAreLookups(heap, variables, variablesByName)
    /\ \E sp \in DceSpecs : Analyze(sp)

DceCheckSpecVars == CheckSpecVars({})

Init == InitState

Next ==
    \/ DceAddVariable
    \/ EndReadVariables
    \/ DceAnalyze
    \/ DceCheckSpecVars
    \/ RemoveUnusedVariables
    \/ ResolveDuplicateDeclarations

Spec == Init /\ [][Next]_vars

(***************************************************************************)
(* SpecSort: auxVars() and levelVars() on models of aux and level          *)
(* variables _p, _q, _r that read each other, before, during and after a   *)
(* read without a spec.  A name can be declared more than once, and _r     *)
(* also as an array.                                                       *)
(***************************************************************************)
SortVarDomain ==
    { Var("_p", <<>>, "aux", <<>>, <<>>),
      Var("_p", <<>>, "aux", << <<"_q">> >>, <<>>),
      Var("_q", <<>>, "aux", <<>>, <<>>),
      Var("_q", <<>>, "aux", << <<"_p">> >>, <<>>),
      Var("_r", <<>>, "aux", << <<"_q">>, <<"_r">>, <<"_q">> >>, <<>>),
      Var("_r", <<"_dima">>, "aux", <<>>, <<>>),
      Var("_p", <<>>, "level", << <<"_q">> >>, <<>>),
      Var("_q", <<>>, "level", << <<"_p">> >>, <<>>),
      Var("_q", <<>>, "level", << <<"_r">> >>, <<>>),
      Var("_r", <<>>, "level", <<>>, <<>>) }

SortAddVariable == \E v \in SortVarDomain : AddVariable(v, MaxSortVars)

SortAnalyze == Analyze(NoSpec)

SortCheckSpecVars == CheckSpecVars({})

SortAuxVars == SortVarsOfType("aux")

SortLevelVars == SortVarsOfType("level")

NextSort ==
    \/ SortAddVariable
    \/ EndReadVariables
    \/ SortAnalyze
    \/ SortCheckSpecVars
    \/ RemoveUnusedVariables
    \/ ResolveDuplicateDeclarations
    \/ SortAuxVars
    \/ SortLevelVars

SpecSort == InitState /\ [][NextSort]_vars

(***************************************************************************)
(* SpecDup: read() without a spec on models that declare _x and _y as      *)
(* constants, as data variables, or as both.                               *)
(***************************************************************************)
DupFormulas ==
    { <<"1">>, <<"-", "2", ".", "5">>, <<" ", "3", "0">>, <<"1", "e", "2">>, <<".", "5">>,
      <<"4", ",", "2">>, <<":", "N", "A", ":">>, <<"(", "1", ")">>,
      <<"\t", "7">>, <<"1", "e", "3", "0", "9">>, <<"-", "I", "n", "f", "i", "n", "i", "t", "y">> }

DupVarDomain ==
    { [Var(n, <<>>, "const", <<>>, <<>>) EXCEPT !.modelFormula = f] :
        n \in {"_x", "_y"}, f \in DupFormulas }
    \cup { Var(n, <<>>, ty, <<>>, <<>>) : n \in {"_x", "_y"}, ty \in {"data", "aux"} }

DupAddVariable == \E v \in DupVarDomain : AddVariable(v, MaxDupVars)

NextDup ==
    \/ DupAddVariable
    \/ EndReadVariables
    \/ SortAnalyze
    \/ SortCheckSpecVars
    \/ RemoveUnusedVariables
    \/ ResolveDuplicateDeclarations

SpecDup == InitState /\ [][NextDup]_vars

(***************************************************************************)
(* resetModelState, addConstantExpr, addNonAtoAVar                         *)
(***************************************************************************)
\* Map.prototype.set / assignment to a key of an object.
mapSet(m, key, value) == [k \in (DOMAIN m) \cup {key} |-> IF k = key THEN value ELSE m[k]]

ModuleState ==
    [ variables |-> variables, variablesByName |-> variablesByName,
      constantExprs |-> constantExprs, nonAtoANames |-> nonAtoANames,
      inputVars |-> inputVars ]

\* resetModelState: the module-level storage after the call.
resetModelState(st) ==
    [ variables |-> <<>>,
      inputVars |-> <<>>,
      variablesByName |-> EmptyMap,
      constantExprs |-> [e \in {} |-> 0],
      nonAtoANames |-> [n \in {} |-> <<>>] ]

\* Model.resetModelState().  `variables.length = 0` empties the array that
\* `variables` is bound to, which is the exported one only while it was not
\* rebound; `inputVars.length = 0` empties the array of the spec object that
\* read() bound inputVars to.  The objects that neither list holds any more
\* are unreachable: the heap keeps those of the exported array, renumbered.
ResetModelState(max) ==
    /\ resets < max
    /\ LET st == resetModelState(ModuleState)
       IN /\ variables' = st.variables
          /\ variablesByName' = st.variablesByName
          /\ constantExprs' = st.constantExprs
          /\ nonAtoANames' = st.nonAtoANames
          /\ inputVars' = st.inputVars
          /\ exported' = IF rebound THEN [i \in 1..Len(exported) |-> i] ELSE st.variables
          /\ heap' = IF rebound THEN [i \in 1..Len(exported) |-> heap[exported[i]]] ELSE <<>>
          /\ spec' = IF spec.inputVars.defined
                     THEN [spec EXCEPT !.inputVars = List(st.inputVars)]
                     ELSE spec
    /\ resets' = resets + 1
    /\ freshNonAtoANames' = [n \in {} |-> <<>>]
    /\ pc' = "reading"
    /\ err' = NoErr
    /\ sorted' = <<>>
    /\ UNCHANGED <<extData, log, rebound, info, dimVars, callVars>>

\* Model.addConstantExpr(exprText, constantValue), called while equations
\* are read; the function has no precondition.
AddConstantExpr(exprText, constantValue) ==
    /\ NoCallRunning
    /\ constantExprs' = mapSet(constantExprs, exprText, constantValue)
    /\ UNCHANGED <<heap, variables, variablesByName, nonAtoANames, spec, extData, pc, err, log,
                   sorted, exported, rebound, inputVars, resets, freshNonAtoANames, info, dimVars, callVars>>

\* Model.addNonAtoAVar(varName, expansionDims), called by the variable reader
\* for a variable it separates; the function has no precondition.
AddNonAtoAVar(varName, expansionDims) ==
    /\ NoCallRunning
    /\ nonAtoANames' = mapSet(nonAtoANames, varName, expansionDims)
    /\ freshNonAtoANames' = mapSet(freshNonAtoANames, varName, expansionDims)
    /\ UNCHANGED <<heap, variables, variablesByName, spec, extData, pc, err, log,
                   sorted, exported, rebound, constantExprs, inputVars, resets, info, dimVars, callVars>>

(***************************************************************************)
(* SpecReset: reads of small models, with and without dead-code            *)
(* elimination, separated by resets.                                       *)
(***************************************************************************)
ResetVarDomain ==
    { Var("_x", <<"_dima">>, "aux", <<>>, <<>>),
      Var("_x", <<"_a1">>, "aux", <<>>, <<>>),
      Var("_x", <<"_a2">>, "aux", <<>>, <<>>),
      Var("_out", <<>>, "aux", <<>>, <<>>) }

ResetSpecs ==
    { NoSpec, [inputVars |-> List(<< <<"_out">> >>), outputVars |-> List(<< <<"_out">> >>)] }

ResetAddVariable == \E v \in ResetVarDomain : AddVariable(v, AfterThrow(MaxResetVars))

\* read() is handed a new spec object or the one of the read before.
ResetAnalyze == \E sp \in ResetSpecs \cup {spec} : Analyze(sp)

ResetAddConstantExpr == AddConstantExpr("1+1", 2)

ResetAddNonAtoAVar == AddNonAtoAVar("_x", <<TRUE>>)

ResetReset == ResetModelState(MaxResets)

NextReset ==
    \/ ResetAddVariable
    \/ EndReadVariables
    \/ ResetAnalyze
    \/ DceCheckSpecVars
    \/ RemoveUnusedVariables
    \/ ResolveDuplicateDeclarations
    \/ ResetAddConstantExpr
    \/ ResetAddNonAtoAVar
    \/ ResetReset

SpecReset == InitState /\ [][NextReset]_vars

(***************************************************************************)
(* SpecList: read() and the listing on small models with every variable    *)
(* type, variants of one name and a generated helper variable.             *)
(***************************************************************************)
\* A variable with an initial value.
VarInit(varName, subscripts, varType, references, initReferences) ==
    [Var(varName, subscripts, varType, references, initReferences) EXCEPT !.hasInitValue = TRUE]

ListVarDomain ==
    { Var("_x", <<>>, "const", <<>>, <<>>),
      Var("_x", <<"_a1">>, "aux", <<>>, <<>>),
      Var("_x", <<"_a2">>, "aux", << <<"_g">> >>, <<>>),
      Var("_x", <<>>, "aux", << <<"_x">> >>, <<>>),
      Var("_y", <<"_dima">>, "data", <<>>, <<>>),
      Var("_y", <<>>, "lookup", <<>>, <<>>),
      Var("_y", <<>>, "aux", << <<"_g">> >>, <<>>),
      VarInit("_y", <<"_dima">>, "level", << <<"_g">> >>, << <<"_g">> >>),
      VarInit("_s", <<>>, "level", <<>>, <<>>),
      Var("_g", <<>>, "aux", <<>>, <<>>),
      Var("__aux1", <<>>, "aux", <<>>, <<>>) }

ListAddVariable == \E v \in ListVarDomain : AddVariable(v, AfterThrow(MaxListVars))

NextList ==
    \/ ListAddVariable
    \/ EndReadVariables
    \/ SortAnalyze
    \/ SortCheckSpecVars
    \/ RemoveUnusedVariables
    \/ ResolveDuplicateDeclarations
    \/ VarIndexInfo

SpecList == InitState /\ [][NextList]_vars

(***************************************************************************)
(* resolveDimensions.  The subscript module keeps one entry per name: a    *)
(* dimension [name, value, size, family, modelValue, mappings, hasValue]   *)
(* (hasValue is FALSE while the value of an alias is still ''), or an      *)
(* index [value, family].  mappings lists [toDim, value] in key order.     *)
(***************************************************************************)
\* JavaScript string order on the dimension names of the model.
DimNameOrder == <<"_d0", "_da", "_db", "_dc">>

DimNameRank(name) == IndexOf(DimNameOrder, name)

\* sub(name) for a dimension: its position in the list, 0 when there is none.
dimAt(ds, name) ==
    IF \E i \in 1..Len(ds) : ds[i].name = name
    THEN CHOOSE i \in 1..Len(ds) : ds[i].name = name
    ELSE 0

\* isDimension(name): the name is registered with a list as its value.
isDimensionIn(ds, name) == dimAt(ds, name) # 0 /\ ds[dimAt(ds, name)].hasValue

\* R.flatten on a list of lists.
RECURSIVE Flatten(_)
Flatten(ss) == IF ss = <<>> THEN <<>> ELSE Head(ss) \o Flatten(Tail(ss))

\* The dimension tokens of a value replaced by the values of their dimensions.
expandValue(ds, value) ==
    Flatten([i \in 1..Len(value) |->
                IF isDimensionIn(ds, value[i]) THEN ds[dimAt(ds, value[i])].value
                ELSE <<value[i]>>])

\* The body of the for loop of the expansion for dimension i.
expandDim(ds, i) ==
    IF ds[i].hasValue /\ expandValue(ds, ds[i].value) # ds[i].value
    THEN [ds EXCEPT ![i].value = expandValue(ds, ds[i].value),
                    ![i].size = Len(expandValue(ds, ds[i].value))]
    ELSE ds

\* One pass of the do-while loop from dimension i on: the dimensions it
\* leaves and whether a value changed.
RECURSIVE expandPass(_, _, _)
expandPass(ds, i, dimFoundInValue) ==
    IF i > Len(ds) THEN [ds |-> ds, dimFoundInValue |-> dimFoundInValue]
    ELSE CHOOSE r \in {expandPass(next, i + 1, dimFoundInValue \/ next # ds) :
                           next \in {expandDim(ds, i)}} : TRUE

\* Fill in dimension aliases from their families and list them with the
\* dimensions.
RECURSIVE fillAliases(_, _, _)
fillAliases(ds, al, k) ==
    IF k > Len(al) THEN ds
    ELSE IF al[k].hasValue THEN fillAliases(ds, al, k + 1)
    ELSE LET refDim == ds[dimAt(ds, al[k].family)]
         IN fillAliases(Append(ds, [al[k] EXCEPT !.value = refDim.value,
                                                 !.size = refDim.size,
                                                 !.modelValue = refDim.modelValue,
                                                 !.hasValue = TRUE]),
                        al, k + 1)

\* dimComparator with the names compared in ascending order.
dimKey_NameAscending(dim) == dim.size * (Len(DimNameOrder) + 1) + DimNameRank(dim.name)

\* dimComparator as a sort key: by size ascending, by name descending.
dimKey(dim) == dim.size * (Len(DimNameOrder) + 1) + (Len(DimNameOrder) - DimNameRank(dim.name))

\* The dimensions that contain the index, sorted with dimComparator.
familyDims(ds, index) ==
    LET found == SelectSeq(ds, LAMBDA thisDim : index \in Range(thisDim.value))
    IN SortByKeys(found, [i \in 1..Len(found) |-> dimKey(found[i])])

\* The family the loop gives dimension i.
familyOf(ds, fam, i) ==
    IF ds[i].name \in DOMAIN fam THEN fam[ds[i].name]
    ELSE IF Len(ds[i].value) > 0 /\ Len(familyDims(ds, ds[i].value[1])) > 0
    THEN familyDims(ds, ds[i].value[1])[Len(familyDims(ds, ds[i].value[1]))].name
    ELSE ds[i].family

assignFamilies(ds, fam) == [i \in 1..Len(ds) |-> [ds[i] EXCEPT !.family = familyOf(ds, fam, i)]]

\* The dimensions the family loop reports as having no family.
noFamilyErrors(ds, fam) ==
    LET bad == SelectSeq(ds, LAMBDA d :
                   /\ d.name \notin DOMAIN fam
                   /\ ~(Len(d.value) > 0 /\ Len(familyDims(ds, d.value[1])) > 0))
    IN [i \in 1..Len(bad) |-> [msg |-> "No family found for dimension", name |-> bad[i].name]]

\* addIndex(name, value, family) sets the entry of the name in the subscript
\* map.  The map holds one entry per name, so from then on sub(name) answers
\* this index, also where a dimension of that name was defined: `indices`
\* holds the entries addIndex has written, and they come before the
\* dimension objects of the same name in sub, isDimension and isIndex.
addIndex(reg, name, value, family) ==
    [ indices |-> [x \in (DOMAIN reg.indices) \cup {name} |->
                      IF x = name THEN [value |-> value, family |-> family] ELSE reg.indices[x]],
      registrations |-> Append(reg.registrations, [name |-> name, value |-> value, family |-> family]) ]

RECURSIVE registerDim(_, _, _)
registerDim(reg, dim, i) ==
    IF i >= Len(dim.value) THEN reg
    ELSE registerDim(addIndex(reg, dim.value[i + 1], i, dim.family), dim, i + 1)

\* Define indices in order from the dimensions that are their own family.
RECURSIVE registerIndices(_, _, _)
registerIndices(reg, ds, k) ==
    IF k > Len(ds) THEN reg
    ELSE IF ds[k].family = ds[k].name
    THEN registerIndices(registerDim(reg, ds[k], 0), ds, k + 1)
    ELSE registerIndices(reg, ds, k + 1)

\* An element of an array that was never assigned.
Hole == "<empty>"

\* arr[n] = x on a JavaScript array, n counted from 0.
arraySet(arr, n, x) ==
    [i \in 1..(IF n + 1 > Len(arr) THEN n + 1 ELSE Len(arr)) |->
        IF i = n + 1 THEN x ELSE IF i <= Len(arr) THEN arr[i] ELSE Hole]

\* toDim.value.indexOf(name), counted from 0; -1 when absent.
indexIn(value, name) == IndexOf(value, name) - 1

\* setMappingValue: acc holds the inverted mapping and the errors printed.
setMappingValue(acc, toDim, fromDim, toSubName, toIndNumber, fromIndName) ==
    IF toIndNumber >= 0 /\ toIndNumber < toDim.size
    THEN [acc EXCEPT !.inverted = arraySet(@, toIndNumber, fromIndName)]
    ELSE [acc EXCEPT !.errors = Append(@, [msg |-> "map-to index not found", name |-> toSubName])]

RECURSIVE fillFromDimension(_, _, _, _, _, _, _)
fillFromDimension(acc, toDim, fromDim, toSubName, toValue, fromIndName, k) ==
    IF k > Len(toValue) THEN acc
    ELSE fillFromDimension(
             setMappingValue(acc, toDim, fromDim, toSubName, indexIn(toDim.value, toValue[k]), fromIndName),
             toDim, fromDim, toSubName, toValue, fromIndName, k + 1)

\* sub(name) is defined: the name is a dimension or a registered index.
subDefined(ds, indexTable, name) == dimAt(ds, name) # 0 \/ name \in DOMAIN indexTable

\* isDimension(name) once indices are registered: the entry of the name is
\* a dimension, not an index that addIndex has put in its place.
isDimensionOf(ds, indexTable, name) == name \notin DOMAIN indexTable /\ isDimensionIn(ds, name)

\* The for loop over fromDim.value from position i (counted from 1) on, with
\* toDim = sub(toDimName).  A mapping value that names nothing registered
\* makes `toSub.name` throw, and a toDim that is an index (its value is a
\* number) or undefined makes `toDim.value.indexOf` throw.
RECURSIVE invertFrom(_, _, _, _, _, _, _)
invertFrom(acc, ds, indexTable, toDimName, fromDim, mappingValue, i) ==
    IF i > Len(fromDim.value) \/ acc.thrown THEN acc
    ELSE IF i <= Len(mappingValue) /\ isDimensionOf(ds, indexTable, mappingValue[i])
    THEN IF ds[dimAt(ds, mappingValue[i])].value = <<>>
         THEN invertFrom(acc, ds, indexTable, toDimName, fromDim, mappingValue, i + 1)
         ELSE IF ~isDimensionOf(ds, indexTable, toDimName)
         THEN [acc EXCEPT !.thrown = TRUE]
         ELSE invertFrom(fillFromDimension(acc, ds[dimAt(ds, toDimName)], fromDim, mappingValue[i],
                                           ds[dimAt(ds, mappingValue[i])].value, fromDim.value[i], 1),
                         ds, indexTable, toDimName, fromDim, mappingValue, i + 1)
    ELSE IF /\ i <= Len(mappingValue)
            /\ subDefined(ds, indexTable, mappingValue[i])
            /\ isDimensionOf(ds, indexTable, toDimName)
    THEN invertFrom(setMappingValue(acc, ds[dimAt(ds, toDimName)], fromDim, mappingValue[i],
                                    indexIn(ds[dimAt(ds, toDimName)].value, mappingValue[i]),
                                    fromDim.value[i]),
                    ds, indexTable, toDimName, fromDim, mappingValue, i + 1)
    ELSE [acc EXCEPT !.thrown = TRUE]

\* The inverted value of one mapping of fromDim.
invertMapping(ds, indexTable, fromDim, mapping, errors) ==
    IF mapping.value = <<>>
    THEN [inverted |-> fromDim.value, errors |-> errors, thrown |-> FALSE]
    ELSE invertFrom([inverted |-> <<>>, errors |-> errors, thrown |-> FALSE],
                    ds, indexTable, mapping.toDim, fromDim, mapping.value, 1)

\* The loops over the dimensions and their mappings, from mapping k of
\* dimension f on; st holds the dimensions, the errors and whether it threw.
RECURSIVE invertMappings(_, _, _, _)
invertMappings(st, indexTable, f, k) ==
    IF f > Len(st.ds) \/ st.thrown THEN st
    ELSE IF k > Len(st.ds[f].mappings) THEN invertMappings(st, indexTable, f + 1, 1)
    ELSE LET r == invertMapping(st.ds, indexTable, st.ds[f], st.ds[f].mappings[k], st.errors)
         IN IF r.thrown
            THEN [st EXCEPT !.errors = r.errors, !.thrown = TRUE]
            ELSE invertMappings([st EXCEPT !.ds[f].mappings[k].value = r.inverted,
                                           !.errors = r.errors],
                                indexTable, f, k + 1)

\* The alias objects after the call: an alias that was filled in is the
\* object pushed on allDims, the k-th of them at position n + k.
aliasObjects(ds, al, n) ==
    [k \in 1..Len(al) |->
        IF al[k].hasValue THEN al[k]
        ELSE ds[n + Cardinality({j \in 1..k : ~al[j].hasValue})]]

\* resolveDimensions after the expansion loop.
finishResolve(ds, al, fam) ==
    LET filled == fillAliases(ds, al, 1)
        withFamilies == assignFamilies(filled, fam)
        reg == registerIndices([indices |-> [x \in {} |-> 0], registrations |-> <<>>], withFamilies, 1)
        inv == invertMappings([ds |-> withFamilies, errors |-> noFamilyErrors(filled, fam), thrown |-> FALSE],
                              reg.indices, 1, 1)
    IN [ ds |-> inv.ds, al |-> aliasObjects(inv.ds, al, Len(ds)),
         indices |-> reg.indices, registrations |-> reg.registrations,
         errors |-> inv.errors, thrown |-> inv.thrown ]

\* One pass of the do-while loop of resolveDimensions.
ExpandPass ==
    /\ dpc = "expanding"
    /\ \A i \in 1..Len(dims) : Len(dims[i].value) <= MaxValueLen
    /\ LET r == expandPass(dims, 1, FALSE)
       IN /\ dims' = r.ds
          /\ dpc' = IF r.dimFoundInValue THEN "expanding" ELSE "expanded"
    /\ UNCHANGED <<aliases, dimensionFamilies, indices, registrations, dimErrors, modelVars, callVars>>

\* resolveDimensions from the aliases to the mappings.
FinishResolve ==
    /\ dpc = "expanded"
    /\ LET r == finishResolve(dims, aliases, dimensionFamilies)
       IN /\ dims' = r.ds
          /\ aliases' = r.al
          /\ indices' = r.indices
          /\ registrations' = r.registrations
          /\ dimErrors' = dimErrors \o r.errors
          /\ dpc' = IF r.thrown THEN "error" ELSE "resolved"
    /\ UNCHANGED <<dimensionFamilies, modelVars, callVars>>

(***************************************************************************)
(* SpecDims: resolveDimensions on the dimensions _da, _db, _dc over the     *)
(* indices _x1.._x4, nested, overlapping or cyclic, with an alias, a        *)
(* family from the spec and a mapping from _dc.                            *)
(***************************************************************************)
\* addDimension(name, value, mappings): the family is provisionally the name.
Dimension(name, value, mappings) ==
    [ name |-> name, value |-> value, size |-> Len(value), family |-> name,
      modelValue |-> value, mappings |-> mappings, hasValue |-> TRUE ]

\* addAlias(name, family): the value is '' until the alias is filled in.
Alias(name, family) ==
    [ name |-> name, value |-> <<>>, size |-> 0, family |-> family,
      modelValue |-> <<>>, mappings |-> <<>>, hasValue |-> FALSE ]

DaValues ==
    { <<"_x1", "_x2">>, <<"_x1", "_x2", "_x3">>, <<"_db", "_x1">>, <<"_da", "_x1">>, <<"_db">> }

DbValues ==
    { <<"_x2", "_x3">>, <<"_x3", "_x4">>, <<"_dc">>, <<"_da">>, <<"_x1", "_x2">> }

DcValues == { <<"_x3", "_x4">>, <<"_x1", "_x2">>, <<"_x4">>, <<"_d0", "_x4">> }

DcMappings ==
    { <<>>,
      << [toDim |-> "_da", value |-> <<>>] >>,
      << [toDim |-> "_da", value |-> <<"_x2", "_x1">>] >>,
      << [toDim |-> "_da", value |-> <<"_x1", "_x4">>] >>,
      << [toDim |-> "_da", value |-> <<"_db", "_x1">>] >>,
      << [toDim |-> "_db", value |-> <<"_x3", "_x4">>] >> }

DimTables ==
    { << Dimension("_da", a, <<>>), Dimension("_db", b, <<>>), Dimension("_dc", c, mp) >> :
        a \in DaValues, b \in DbValues, c \in DcValues, mp \in DcMappings }

AliasLists == { <<>>, <<Alias("_d0", "_da")>>, <<Alias("_d0", "_db")>> }

FamilyMaps == { [d \in {} |-> ""], [d \in {"_db"} |-> "_da"] }

InitDims ==
    /\ InitModule
    /\ NoCalls
    /\ dims \in DimTables
    /\ aliases \in AliasLists
    /\ dimensionFamilies \in FamilyMaps
    /\ indices = [x \in {} |-> 0]
    /\ registrations = <<>>
    /\ dimErrors = <<>>
    /\ dpc = "expanding"

NextDims ==
    \/ ExpandPass
    \/ FinishResolve

SpecDims == InitDims /\ [][NextDims]_vars

\* The do-while loop goes on to its next pass while it has one to run.
SpecDimsFair == SpecDims /\ WF_vars(ExpandPass)

(***************************************************************************)
(* SpecRef: varWithRefId on tables of one name _x declared as a scalar,    *)
(* over one dimension or over two, before and after analysis, asked for    *)
(* references that are the refId of a variable, are covered by one, or by  *)
(* none; and vensimName on the same tables.                                *)
(***************************************************************************)
\* Model.varWithRefId(refId), on the table as it is when it is called.
VarWithRefId(refId) ==
    /\ NoCallRunning
    /\ asked' = refId
    /\ returned' = varWithRefId(heap, variablesByName, refId)
    /\ pc' = "varWithRefId"
    /\ UNCHANGED <<heap, variables, variablesByName, nonAtoANames, spec, extData, err, log, sorted,
                   exported, rebound, constantExprs, inputVars, resets, freshNonAtoANames, info,
                   dimVars, initQueue, poppedVar>>

\* Number.parseInt of the digit strings asked for.
parseInt == [d \in {"0", "1", "2"} |-> IF d = "0" THEN 0 ELSE IF d = "1" THEN 1 ELSE 2]

\* vensimName(cVarName): the name returned, the console.error lines printed
\* and whether the call threw.  The first regular expression finds the first
\* identifier that starts with an underscore and the groups "[digits]" that
\* follow it at once; the second takes the left side of the equation up to
\* its first "[".  indexNames[indexNumber] is undefined when the C name has
\* fewer index numbers than the variable has subscripts or the number is out
\* of range, and decanonicalize(undefined) throws a TypeError.
vensimName(h, m, cVarName) ==
    LET ids == {i \in 1..Len(cVarName) : cVarName[i] \in DOMAIN ModelNames}
        p == CHOOSE i \in ids : \A j \in ids : i <= j
        varName == cVarName[p]
        group(j) == /\ p + 3 * j <= Len(cVarName)
                    /\ cVarName[p + 3 * j - 2] = "["
                    /\ cVarName[p + 3 * j - 1] \in DOMAIN parseInt
                    /\ cVarName[p + 3 * j] = "]"
        groups == Cardinality({n \in 1..Len(cVarName) : \A j \in 1..n : group(j)})
        indexNumbers == [j \in 1..groups |-> cVarName[p + 3 * j - 1]]
        v == varWithName(m, <<varName>>)
        lhs == h[v].modelLHS
        starts == {i \in 1..Len(lhs) : lhs[i] # "["}
        first == CHOOSE i \in starts : \A j \in starts : i <= j
        stops == {i \in first..Len(lhs) : lhs[i] = "["} \cup {Len(lhs) + 1}
        last == (CHOOSE i \in stops : \A j \in stops : i <= j) - 1
        result == IF starts = {} THEN cVarName ELSE SubSeq(lhs, first, last)
        families == subscriptFamilies(h[v].subscripts)
        defined(i) == /\ i <= Len(indexNumbers)
                      /\ parseInt[indexNumbers[i]] < Len(indexNamesForSubscript(families[i]))
        subscripts == [i \in 1..Len(families) |->
                          decanonicalize(indexNamesForSubscript(families[i])[parseInt[indexNumbers[i]] + 1])]
    IN IF ids = {}
       THEN [result |-> cVarName, log |-> <<>>, thrown |-> FALSE]
       ELSE IF v = 0
       THEN [result |-> cVarName,
             log |-> <<[msg |-> "no var with name in vensimName", varName |-> varName]>>,
             thrown |-> FALSE]
       ELSE IF ~(Len(h[v].subscripts) = 0 \/ Len(indexNumbers) > 0)
       THEN [result |-> cVarName,
             log |-> <<[msg |-> "has no subscripts in vensimName", cVarName |-> cVarName]>>,
             thrown |-> FALSE]
       ELSE IF \E i \in 1..Len(families) : ~defined(i)
       THEN [result |-> cVarName, log |-> <<>>, thrown |-> TRUE]
       ELSE [result |-> IF Len(subscripts) = 0 THEN result
                        ELSE result \o <<"[">> \o JoinComma(subscripts) \o <<"]">>,
             log |-> <<>>, thrown |-> FALSE]

\* Model.vensimName(cVarName), on the table as it is when it is called.  A
\* call that prints is made while the log holds fewer than MaxLog lines.
VensimName(cVarName) ==
    /\ NoCallRunning
    /\ \E r \in {vensimName(heap, variablesByName, cVarName)} :
          /\ Len(log) + Len(r.log) <= MaxLog
          /\ asked' = cVarName
          /\ log' = log \o r.log
          /\ IF r.thrown
             THEN /\ pc' = "error"
                  /\ err' = [specType |-> "TypeError", varName |-> <<"replace">>]
                  /\ returned' = 0
             ELSE /\ pc' = "vensimName"
                  /\ err' = err
                  /\ returned' = r.result
    /\ UNCHANGED <<heap, variables, variablesByName, nonAtoANames, spec, extData, sorted,
                   exported, rebound, constantExprs, inputVars, resets, freshNonAtoANames, info,
                   dimVars, initQueue, poppedVar>>

RefSubscripts ==
    { <<>>, <<"_a1">>, <<"_a2">>, <<"_dima">>, <<"_a1", "_b1">>, <<"_dima", "_b1">>,
      <<"_a2", "_dimb">> }

\* The variable of an equation whose left side is x or x[subscripts]: the
\* reader keeps the text of the left side in modelLHS.
LhsVar(sb) ==
    [ Var("_x", sb, "aux", <<>>, <<>>) EXCEPT
        !.modelLHS = IF Len(sb) = 0 THEN <<"x">>
                     ELSE <<"x", "[">> \o JoinComma([i \in 1..Len(sb) |-> decanonicalize(sb[i])])
                            \o <<"]">> ]

\* The declarations of _x, with the left side kept and as the constructor
\* leaves it.
RefVarDomain ==
    { Var("_x", sb, "aux", <<>>, <<>>) : sb \in RefSubscripts }
    \cup { LhsVar(sb) : sb \in { <<>>, <<"_dima">>, <<"_a2", "_dimb">> } }

\* The C names asked for: of the name declared, bare and with index numbers
\* in and out of range, of names that are not declared, and a text that
\* holds no C name.
CVarNamesAsked ==
    { <<"_x">>, <<"_x", "[", "0", "]">>, <<"_x", "[", "2", "]">>,
      <<"_x", "[", "1", "]", "[", "0", "]">>, <<"_q">>, <<"_zz">>, <<"x">> }

\* The references asked for: those of the declarations, one with its
\* subscripts out of normal order, and one to a name that is not declared.
RefIdsAsked ==
    { refIdForVar([_x |-> <<>>], Var("_x", sb, "aux", <<>>, <<>>)) : sb \in RefSubscripts }
    \cup { <<"_x", "[", "_b1", ",", "_a1", "]">>, <<"_x", "[", "_dimb", "]">>,
           <<"_x", "[", "_b1", "]">>, <<"_z", "[", "_a1", "]">> }

RefAddVariable == \E v \in RefVarDomain : AddVariable(v, MaxRefVars)

RefVarWithRefId == \E refId \in RefIdsAsked : VarWithRefId(refId)

RefVensimName == \E cVarName \in CVarNamesAsked : VensimName(cVarName)

NextRef ==
    \/ RefAddVariable
    \/ EndReadVariables
    \/ SortAnalyze
    \/ RefVarWithRefId
    \/ RefVensimName

SpecRef == InitState /\ [][NextRef]_vars

(***************************************************************************)
(* SpecInit: initVars() on models of a level _p with an initial value, an  *)
(* array _q and a leaf _r, whose references are refIds (_q) or elements of *)
(* an apply-to-all array (_q[_a1]).  The while loop of sortInitVars is     *)
(* followed pop by pop.                                                    *)
(***************************************************************************)
\* sortInitVars up to the while loop: the queue holds the variables with an
\* initial value.
StartSortInitVars ==
    /\ NoCallRunning
    /\ pc = "done" \/ Len(log) < MaxLog
    /\ initQueue' = initialQueue(heap, variables)
    /\ pc' = "initQueue"
    /\ UNCHANGED <<heap, variables, variablesByName, nonAtoANames, spec, extData, err, log, sorted,
                   exported, rebound, constantExprs, inputVars, resets, freshNonAtoANames, info,
                   dimVars, asked, returned, poppedVar>>

\* The while loop, first half of an iteration: vars.pop() and
\* queueRefIds.delete(v.refId).
SortInitPop ==
    /\ pc = "initQueue"
    /\ poppedVar = 0
    /\ initQueue.vars # <<>>
    /\ poppedVar' = initQueue.vars[Len(initQueue.vars)]
    /\ initQueue' = [initQueue EXCEPT !.vars = SubSeq(@, 1, Len(@) - 1),
                                      !.queueRefIds = @ \ {heap[poppedVar'].refId}]
    /\ UNCHANGED <<modelVars, dimVars, asked, returned>>

\* The while loop, second half of an iteration: addDepsToMap(v).
SortInitAddDeps ==
    /\ pc = "initQueue"
    /\ poppedVar # 0
    /\ initQueue' = addDepsToMap(heap, variablesByName, initQueue, poppedVar)
    /\ log' = log \o addDepsLog(heap, variablesByName, initQueue, poppedVar)
    /\ poppedVar' = 0
    /\ UNCHANGED <<heap, variables, variablesByName, nonAtoANames, spec, extData, pc, err, sorted,
                   exported, rebound, constantExprs, inputVars, resets, freshNonAtoANames, info,
                   dimVars, asked, returned>>

\* sortInitVars from the end of the while loop on.
FinishSortInitVars ==
    /\ pc = "initQueue"
    /\ poppedVar = 0
    /\ initQueue.vars = <<>>
    /\ \E graph \in {graphOfDeps(initQueue.depsMap, 1)} :
          \/ /\ isCyclic(graph) \/ ~depsResolve(heap, variablesByName, graph)
             /\ pc' = "error"
             /\ err' = IF isCyclic(graph) THEN [specType |-> "cycle", varName |-> <<"init">>]
                       ELSE TypeError
             /\ sorted' = <<>>
          \/ /\ depsResolve(heap, variablesByName, graph)
             /\ \E order \in toposort(graph) :
                   /\ pc' = "initVars"
                   /\ err' = err
                   /\ sorted' = sortInitVars(heap, variables, variablesByName, order)
    /\ UNCHANGED <<heap, variables, variablesByName, nonAtoANames, spec, extData, log,
                   exported, rebound, constantExprs, inputVars, resets, freshNonAtoANames, info,
                   dimVars, callVars>>

InitVarDomain ==
    { VarInit("_p", <<>>, "level", <<>>, ir) :
        ir \in { <<>>, << <<"_q">> >>, << <<"_q", "[", "_a1", "]">> >> } }
    \cup { VarInit("_p", <<"_dima">>, "level", <<>>, << <<"_p", "[", "_a1", "]">> >>) }
    \cup { Var("_q", <<"_dima">>, "aux", r, <<>>) : r \in { <<>>, << <<"_r">> >>, << <<"_p">> >> } }
    \cup { Var("_r", <<>>, ty, <<>>, <<>>) : ty \in {"aux", "const"} }

InitAddVariable == \E v \in InitVarDomain : AddVariable(v, AfterThrow(MaxInitVars))

NextInit ==
    \/ InitAddVariable
    \/ EndReadVariables
    \/ SortAnalyze
    \/ SortCheckSpecVars
    \/ RemoveUnusedVariables
    \/ ResolveDuplicateDeclarations
    \/ StartSortInitVars
    \/ SortInitPop
    \/ SortInitAddDeps
    \/ FinishSortInitVars

SpecInit == InitState /\ [][NextInit]_vars

\* The while loop goes on while the queue holds a variable or one was popped.
SpecInitFair == SpecInit /\ WF_vars(SortInitPop) /\ WF_vars(SortInitAddDeps)

(***************************************************************************)
(* Properties                                                              *)
(***************************************************************************)
Listed == Range(variables)

AnalysisDone == pc \in {"analyzed", "checked", "removed", "done"}

\* C1: after analysis every variable of the table is the one its own refId
\* resolves to, so no two records share a refId.
C1_RefIdIdentifiesRecord ==
    AnalysisDone =>
        \A id \in Listed : varWithRefId(heap, variablesByName, heap[id].refId) = id

\* The names a field of the spec lists without subscripts.
UnsubscriptedNames(field) ==
    IF field.defined THEN {n \in Range(field.items) : ~HasBracket(n)} ELSE {}

\* The names of a field that name no variable of the table and no external data.
UnbackedNames(field, ext) ==
    {n \in UnsubscriptedNames(field) :
        varWithRefId(heap, variablesByName, n) = 0 /\ ~(n \in {<<k>> : k \in ext})}

\* C10: checkSpecVars aborts when an unsubscripted spec name has neither a
\* variable nor external data, the error names such a name and the field
\* that lists it, and it returns normally only when every unsubscripted spec
\* name resolves to a variable afterwards.
C10_SpecCheckErrors ==
    [][ (pc = "analyzed" /\ pc' \in {"checked", "error"}) =>
          LET badIn == UnbackedNames(spec.inputVars, extData')
              badOut == UnbackedNames(spec.outputVars, extData')
          IN /\ (badIn \cup badOut # {}) => pc' = "error"
             /\ pc' = "error" =>
                   \/ err'.specType = "input" /\ err'.varName \in badIn
                   \/ err'.specType = "output" /\ err'.varName \in badOut
             /\ pc' = "checked" =>
                   \A n \in UnsubscriptedNames(spec.inputVars) \cup UnsubscriptedNames(spec.outputVars) :
                       varWithRefId(heap', variablesByName', n) # 0
      ]_vars

\* An output name without a variable or data was reported, after the inputs passed.
C10_Witness ==
    /\ pc = "error"
    /\ err.specType = "output"
    /\ Len(spec.inputVars.items) > 0

(***************************************************************************)
(* Dead-code elimination, stated on the step of removeUnusedVariables:     *)
(* the unprimed variables are the table it is called on, the primed ones   *)
(* the table it leaves.                                                    *)
(***************************************************************************)
\* The spec lists at least one input and at least one output.
BothListsGiven ==
    /\ spec.inputVars.defined /\ spec.inputVars.items # <<>>
    /\ spec.outputVars.defined /\ spec.outputVars.items # <<>>

\* The table removeUnusedVariables is called on.
AllIds == variables

MapBefore == variablesByName

\* removeUnusedVariables runs with both lists given and returns.
Removed == pc = "checked" /\ pc' = "removed" /\ BothListsGiven

AllReferences(v) == Range(v.references) \cup Range(v.initReferences)

\* Every reference named a variable when removeUnusedVariables was called.
ResolvedBefore ==
    \A id \in Range(AllIds) : \A r \in AllReferences(heap[id]) :
        varWithRefId(heap, MapBefore, r) # 0

InputNames == {n[1] : n \in {x \in Range(spec.inputVars.items) : Len(x) = 1}}

OutputBaseNames == {n[1] : n \in Range(spec.outputVars.items)}

\* The base names the variables named `names` refer to.
ReferredNames(names) ==
    {r[1] : r \in UNION {AllReferences(heap[id]) : id \in {i \in Range(AllIds) : heap[i].varName \in names}}}

\* The names reachable from `names` through references and initReferences.
RECURSIVE ReachableNames(_)
ReachableNames(names) ==
    IF ReferredNames(names) \subseteq names THEN names
    ELSE ReachableNames(names \cup ReferredNames(names))

\* C2: once dead code is removed, every reference of a surviving variable
\* (inputs and pins included) resolves to a variable of the surviving table.
C2_SurvivingReferencesResolve ==
    [][ (Removed /\ ResolvedBefore) =>
          \A id \in Listed' : \A r \in AllReferences(heap'[id]) :
              varWithRefId(heap', variablesByName', r) \in Listed' ]_vars

\* C3: dead-code elimination keeps every variable whose name is reachable
\* through references and initReferences from a pin, an input or an output.
C3_ReachableFromAnyRootKept ==
    [][ (Removed /\ ResolvedBefore) =>
          \A id \in Range(AllIds) :
              heap[id].varName \in ReachableNames(Pins \cup InputNames \cup OutputBaseNames)
                  => id \in Listed' ]_vars

\* The variables recordUsedVariable can be applied to: the inputs, the
\* outputs and what the outputs reach.
RecordedNames == InputNames \cup ReachableNames(OutputBaseNames)

RecordedIds == {id \in Range(AllIds) : heap[id].varName \in RecordedNames}

\* The lookups the recorded variables name, directly or as a function.
NamedLookups ==
    UNION {Range(heap[id].referencedLookupVarNames) : id \in RecordedIds}
    \cup {n \in DOMAIN MapBefore :
            /\ isLookup(heap[MapBefore[n][1]])
            /\ \E id \in RecordedIds : <<"_", n>> \in Range(heap[id].referencedFunctionNames)}

AllowedNames == Pins \cup RecordedNames \cup NamedLookups

\* C4: a variable survives dead-code elimination only if its name is a pin,
\* an input, an output base name, reachable from an output, or a lookup that
\* a recorded variable names; nothing else is left in the list or the map.
C4_OnlyReferencedSurvive ==
    [][ Removed =>
          /\ \A id \in Listed' : heap'[id].varName \in AllowedNames
          /\ \A n \in DOMAIN variablesByName' :
                n \in AllowedNames /\ Range(variablesByName'[n]) \subseteq Listed' ]_vars

\* A variable was dropped, another survives only because an output reaches it.
C4_Witness ==
    /\ pc = "removed"
    /\ BothListsGiven
    /\ Len(heap) = Len(exported)
    /\ \E id \in DOMAIN heap : id \notin Listed /\ heap[id].varName # "_time"
    /\ \E id \in Listed : heap[id].varName \notin Pins \cup InputNames \cup OutputBaseNames

\* C5: without inputs or without outputs removeUnusedVariables leaves the
\* variable list and the by-name map as they are.
C5_NoRemovalWithoutInputsOrOutputs ==
    [][ (pc = "checked" /\ pc' = "removed" /\ ~BothListsGiven) =>
          (variables' = variables /\ variablesByName' = variablesByName) ]_vars

\* removeUnusedVariables returned with outputs but no inputs and a full table.
C5_Witness ==
    /\ pc = "removed"
    /\ ~BothListsGiven
    /\ Len(spec.outputVars.items) > 0
    /\ variables = [i \in 1..Len(heap) |-> i]
    /\ Len(variables) >= 3

(***************************************************************************)
(* The aux and level sort                                                  *)
(***************************************************************************)
\* The listed variables of a type, the placeholder _time apart.
OfType(varType) ==
    {id \in Listed : heap[id].varType = varType /\ heap[id].varName # "_time"}

\* The variables of the type that variable v reads at eval time.
ReadsOfType(v, varType) ==
    {id \in OfType(varType) :
        \E i \in 1..Len(heap[v].references) :
            varWithRefId(heap, variablesByName, heap[v].references[i]) = id}

\* The position of a variable in the sorted list (0 when it is not there).
Position(id) == IndexOf(sorted, id)

Before(a, b) == Position(a) # 0 /\ Position(b) # 0 /\ Position(a) < Position(b)

\* The position of a refId in the sorted list.
PositionOfRefId(refId) == IndexOf([i \in 1..Len(sorted) |-> heap[sorted[i]].refId], refId)

LevelSortEnded ==
    \/ pc = "levelVars"
    \/ pc = "error" /\ err.specType = "cycle" /\ err.varName = <<"level">>

\* Levels a and b read each other, and no level reads any other level.
MutualLevels(a, b) ==
    /\ a # b
    /\ ReadsOfType(a, "level") = {b}
    /\ ReadsOfType(b, "level") = {a}
    /\ \A v \in OfType("level") \ {a, b} : ReadsOfType(v, "level") = {}

\* C6: when two levels reference each other, levelVars() raises no cycle
\* error and returns both of them.
C6_MutualLevelsAccepted ==
    LevelSortEnded =>
        \A a, b \in OfType("level") :
            MutualLevels(a, b) => (pc = "levelVars" /\ {a, b} \subseteq Range(sorted))

\* C7: the sorted list is the reverse of a topological order of the emitted
\* edges: in auxVars() every aux that an aux reads comes before it, in
\* levelVars() a level comes before every level it reads.
C7_SortedIsReverseTopological ==
    /\ pc = "auxVars" =>
          /\ \A v \in OfType("aux") : \A r \in ReadsOfType(v, "aux") : Before(r, v)
          /\ \A e \in Range(depsGraph(heap, variables, variablesByName, "aux")) :
                PositionOfRefId(e[2]) # 0 /\ PositionOfRefId(e[2]) < PositionOfRefId(e[1])
    /\ pc = "levelVars" =>
          /\ \A v \in OfType("level") : \A r \in ReadsOfType(v, "level") : Before(v, r)
          /\ \A e \in Range(depsGraph(heap, variables, variablesByName, "level")) :
                PositionOfRefId(e[2]) # 0 /\ PositionOfRefId(e[2]) < PositionOfRefId(e[1])

(***************************************************************************)
(* Duplicate declarations                                                  *)
(***************************************************************************)
\* The number each formula of DupFormulas starts with, white space apart:
\* a decimal, one too large for a double, or Infinity; NaN when it starts
\* with none.
NumberDenoted(f) ==
    CASE f = <<"1">> -> Number(FALSE, 1, 0)
      [] f = <<"-", "2", ".", "5">> -> Number(TRUE, 25, -1)
      [] f = <<" ", "3", "0">> -> Number(FALSE, 3, 1)
      [] f = <<"1", "e", "2">> -> Number(FALSE, 1, 2)
      [] f = <<".", "5">> -> Number(FALSE, 5, -1)
      [] f = <<"4", ",", "2">> -> Number(FALSE, 4, 0)
      [] f = <<"\t", "7">> -> Number(FALSE, 7, 0)
      [] f = <<"1", "e", "3", "0", "9">> -> Infinity(FALSE)
      [] f = <<"-", "I", "n", "f", "i", "n", "i", "t", "y">> -> Infinity(TRUE)
      [] OTHER -> NaN

\* A const variable declared as data under the same name as well.
ConstWithDataSibling(id) ==
    /\ heap[id].varType = "const"
    /\ heap[id].varName # "_time"
    /\ \E d \in OfType("data") : heap[d].varName = heap[id].varName

ResolveStep == pc = "removed" /\ pc' = "done"

\* C8: resolveDuplicateDeclarations turns every const variable that has a
\* data sibling into a data variable with the points (-1e308, k), (1e308, k),
\* k being the number its formula denotes, and leaves the other const
\* variables alone.
C8_ConstWithDataBecomesData ==
    [][ ResolveStep =>
          \A id \in Listed :
            /\ (ConstWithDataSibling(id) /\ ~NumberDenoted(heap[id].modelFormula).nan) =>
                  heap'[id] = [heap[id] EXCEPT
                      !.varType = "data",
                      !.points = << <<Number(TRUE, 1, 308), NumberDenoted(heap[id].modelFormula)>>,
                                    <<Number(FALSE, 1, 308), NumberDenoted(heap[id].modelFormula)>> >>]
            /\ (heap[id].varType = "const" /\ ~ConstWithDataSibling(id)) => heap'[id] = heap[id]
      ]_vars

\* A constant with a fractional value was turned into a data variable.
C8_Witness ==
    /\ pc = "done"
    /\ \E id \in Listed :
          /\ heap[id].varType = "data"
          /\ heap[id].modelFormula = <<"-", "2", ".", "5">>
          /\ heap[id].points = << <<Number(TRUE, 1, 308), Number(TRUE, 25, -1)>>,
                                  <<Number(FALSE, 1, 308), Number(TRUE, 25, -1)>> >>

\* C9: when the constant does not parse as a number, an error is recorded
\* and the variable is retained unchanged.
C9_UnparsableConstRetained ==
    [][ ResolveStep =>
          \A id \in Listed :
            (ConstWithDataSibling(id) /\ NumberDenoted(heap[id].modelFormula).nan) =>
                /\ heap'[id] = heap[id]
                /\ Len(log') > Len(log)
      ]_vars

(***************************************************************************)
(* Non-apply-to-all arrays                                                 *)
(***************************************************************************)
\* The number of subscripts of a listed variable.
Arity(id) == Len(heap[id].subscripts)

\* Two variants of the name differ at subscript position i.
VariantsDiffer(ids, i) ==
    \E a, b \in Range(ids) :
        /\ i <= Arity(a) /\ i <= Arity(b)
        /\ heap[a].subscripts[i] # heap[b].subscripts[i]

\* C20: after findNonAtoAVars the variants of a name declared more than once
\* have one arity, the expansion flags of the name have that many entries,
\* entry i is true exactly when two variants differ at position i, and a
\* name declared once has no expansion flags.
C20_ExpansionFlagsMatchVariants ==
    AnalysisDone =>
        \A n \in DOMAIN variablesByName :
            LET ids == variablesByName[n]
            IN IF Len(ids) >= 2
               THEN /\ \A a, b \in Range(ids) : Arity(a) = Arity(b)
                    /\ n \in DOMAIN nonAtoANames
                    /\ Len(nonAtoANames[n]) = Arity(ids[1])
                    /\ \A i \in 1..Len(nonAtoANames[n]) :
                          nonAtoANames[n][i] <=> VariantsDiffer(ids, i)
               ELSE n \notin DOMAIN nonAtoANames

(***************************************************************************)
(* Reset and the exported list                                             *)
(***************************************************************************)
\* The records of a list of identities.
Contents(h, ids) == [i \in 1..Len(ids) |-> h[ids[i]]]

MapContents(h, m) == [n \in DOMAIN m |-> Contents(h, m[n])]

RECURSIVE AddAll(_, _, _)
AddAll(t, recs, k) ==
    IF k > Len(recs) THEN t ELSE AddAll(addVariable(t, recs[k]), recs, k + 1)

\* The table an analyzer created at the last reset holds after analysis,
\* given the variables added since.
FreshRead ==
    LET recs == [i \in 1..Len(variables) |-> [heap[variables[i]] EXCEPT !.refId = <<>>]]
        t == AddAll([h |-> <<>>, vs |-> <<>>, m |-> EmptyMap], recs, 1)
    IN [t EXCEPT !.h = setRefIds(t.h, t.vs, freshNonAtoANames)]

\* C11: resetModelState leaves the variable list, as the module holds it
\* and as it exports it, the by-name map, the constant-expression cache and
\* the non-apply-to-all names empty, and the analysis of the next model gives
\* the table a new analyzer gives.
C11_ResetGivesFreshAnalyzer ==
    /\ [][ resets' = resets + 1 =>
             /\ variables' = <<>>
             /\ exported' = <<>>
             /\ \A n \in DOMAIN variablesByName' : variablesByName'[n] = <<>>
             /\ DOMAIN constantExprs' = {}
             /\ DOMAIN nonAtoANames' = {} ]_vars
    /\ [][ (resets >= 1 /\ pc = "read" /\ pc' = "analyzed") =>
             /\ Contents(heap', exported') = Contents(FreshRead'.h, FreshRead'.vs)
             /\ Contents(heap', variables') = Contents(FreshRead'.h, FreshRead'.vs)
             /\ MapContents(heap', variablesByName') = MapContents(FreshRead'.h, FreshRead'.m)
             /\ nonAtoANames' = freshNonAtoANames' ]_vars

\* C12: the exported list, the internal list and the by-name map hold the
\* same records: the exported list is the list of the current variables and
\* each by-name entry is its sub-sequence with that name.
C12_ExportedListIsTheTable ==
    /\ exported = variables
    /\ \A n \in DOMAIN variablesByName :
          variablesByName[n] = SelectSeq(variables, LAMBDA id : heap[id].varName = n)
    /\ \A id \in Range(variables) : heap[id].varName \in DOMAIN variablesByName

(***************************************************************************)
(* The variable index map.  `sorted` is the listing that was indexed.      *)
(***************************************************************************)
\* The listed variables that can be output, in listing order.
Eligible == SelectSeq(sorted, LAMBDA id : heap[id].varType \notin {"data", "lookup"})

EligibleNames == {heap[id].varName : id \in Range(Eligible)}

\* The first position of a name among the eligible variables.
FirstPosition(n) ==
    CHOOSE i \in 1..Len(Eligible) :
        /\ heap[Eligible[i]].varName = n
        /\ \A j \in 1..(i - 1) : heap[Eligible[j]].varName # n

\* C13: the indices are 1..N without gaps, one entry per name of a listed
\* variable that is neither data nor lookup, numbered in the order in which
\* the names first occur in the listing.
C13_IndicesDenseInListingOrder ==
    pc = "varIndexInfo" =>
        /\ {info[i].varName : i \in 1..Len(info)} = EligibleNames
        /\ Len(info) = Cardinality(EligibleNames)
        /\ {info[i].varIndex : i \in 1..Len(info)} = 1..Cardinality(EligibleNames)
        /\ \A i, j \in 1..Len(info) :
              info[i].varIndex < info[j].varIndex
                 <=> FirstPosition(info[i].varName) < FirstPosition(info[j].varName)

\* The listing holds two variants of an indexed name and a variable that gets
\* no index.
C13_Witness ==
    /\ pc = "varIndexInfo"
    /\ Len(info) >= 2
    /\ \E a, b \in Range(Eligible) : a # b /\ heap[a].varName = heap[b].varName
    /\ \E id \in Range(sorted) : heap[id].varType \in {"data", "lookup"}

\* C14: varIndexInfo() returns its entries sorted by varName ascending.
C14_InfoSortedByName ==
    pc = "varIndexInfo" =>
        \A i, j \in 1..Len(info) :
            i < j => WordRank(info[i].varName) < WordRank(info[j].varName)

(***************************************************************************)
(* Dimension resolution.  modelValue keeps the value a dimension was       *)
(* defined with.                                                           *)
(***************************************************************************)
IsAliasName(name) == \E k \in 1..Len(aliases) : aliases[k].name = name

\* The dimensions that were defined with a value.
DefinedDims == {i \in 1..Len(dims) : ~IsAliasName(dims[i].name)}

DefinedNames == {dims[i].name : i \in DefinedDims}

\* The names of the dimensions of the model, the aliases among them.
DimensionNames == DefinedNames \cup {aliases[k].name : k \in 1..Len(aliases)}

\* The family an alias was declared with.
AliasFamily(name) == aliases[CHOOSE k \in 1..Len(aliases) : aliases[k].name = name].family

\* The dimensions named in the definition of a dimension: the dimension
\* tokens of its value, for an alias the family it stands for.
ModelRefs(name) ==
    IF IsAliasName(name) THEN {AliasFamily(name)} \cap DimensionNames
    ELSE Range(dims[dimAt(dims, name)].modelValue) \cap DimensionNames

RECURSIVE RefClosure(_)
RefClosure(S) ==
    LET next == S \cup UNION {ModelRefs(n) : n \in S}
    IN IF next = S THEN S ELSE RefClosure(next)

\* A dimension is defined through itself.
CyclicDims == \E n \in DimensionNames : n \in RefClosure(ModelRefs(n))

\* The definition of a dimension with every dimension replaced in place by
\* its own expansion, an alias by that of its family (for definitions
\* without a cycle).
RECURSIVE FullExpansion(_)
FullExpansion(value) ==
    Flatten([i \in 1..Len(value) |->
                IF IsAliasName(value[i]) /\ AliasFamily(value[i]) \in DefinedNames
                THEN FullExpansion(dims[dimAt(dims, AliasFamily(value[i]))].modelValue)
                ELSE IF value[i] \in DefinedNames
                THEN FullExpansion(dims[dimAt(dims, value[i])].modelValue)
                ELSE <<value[i]>>])

\* C15: a cycle among the dimension definitions ends the expansion in a
\* fatal error: resolveDimensions does not get past the expansion loop.
C15_CycleIsFatal ==
    CyclicDims => dpc \notin {"expanded", "resolved"}

\* C16: without a cycle among the dimensions the expansion loop terminates,
\* and from then on the value of every dimension defined with a value is its
\* definition expanded in place, holds no dimension name and has the length
\* that size says.
C16_AcyclicExpansionTerminates ==
    /\ [](~CyclicDims => <>(dpc # "expanding"))
    /\ []((~CyclicDims /\ dpc # "expanding") =>
             \A i \in DefinedDims :
                 /\ dims[i].value = FullExpansion(dims[i].modelValue)
                 /\ Range(dims[i].value) \cap DimensionNames = {}
                 /\ dims[i].size = Len(dims[i].value))

\* The families under which addIndex was called for the index.
RegisteredUnder(x) ==
    {registrations[k].family : k \in {k \in 1..Len(registrations) : registrations[k].name = x}}

\* C17: after resolveDimensions every index of a dimension's value is
\* registered by exactly one dimension, which is its own family, with that
\* dimension's name as family and its position in that dimension's value.
C17_IndicesRegisteredOnce ==
    (dpc = "resolved" /\ ~CyclicDims) =>
        \A i \in 1..Len(dims) : \A x \in Range(dims[i].value) :
            /\ x \in DOMAIN indices
            /\ Cardinality(RegisteredUnder(x)) = 1
            /\ LET f == dimAt(dims, indices[x].family)
               IN /\ f # 0
                  /\ dims[f].family = dims[f].name
                  /\ indices[x].value + 1 \in 1..Len(dims[f].value)
                  /\ dims[f].value[indices[x].value + 1] = x

\* The dimensions whose value contains the first index of dimension i.
Candidates(i) == {j \in 1..Len(dims) : dims[i].value[1] \in Range(dims[j].value)}

\* Candidate j is the largest one, and among the largest the first by name.
IsMaximal(i, j) ==
    /\ j \in Candidates(i)
    /\ \A k \in Candidates(i) :
          \/ dims[k].size < dims[j].size
          \/ dims[k].size = dims[j].size /\ DimNameRank(dims[j].name) <= DimNameRank(dims[k].name)

\* C18: a dimension named in dimensionFamilies gets that family; any other
\* gets the largest dimension that contains its first index, the first by
\* name among several of that size.
C18_FamilyIsLargestThenFirstByName ==
    dpc \in {"resolved", "error"} =>
        \A i \in 1..Len(dims) :
            IF dims[i].name \in DOMAIN dimensionFamilies
            THEN dims[i].family = dimensionFamilies[dims[i].name]
            ELSE \E j \in Candidates(i) : IsMaximal(i, j) /\ dims[i].family = dims[j].name

\* Two dimensions of the same size share a first index: the later one by
\* name got the earlier one as its family, and a third got the spec's.
C18_Witness ==
    /\ dpc = "resolved"
    /\ \E i, j \in 1..Len(dims) :
          /\ DimNameRank(dims[j].name) < DimNameRank(dims[i].name)
          /\ dims[i].size = dims[j].size
          /\ dims[i].name \notin DOMAIN dimensionFamilies
          /\ dims[i].family = dims[j].name
    /\ \E i \in 1..Len(dims) : dims[i].name \in DOMAIN dimensionFamilies

\* The positions of toValue, counted from 0, that position i of the mapping
\* value maps to (-1 stands for a token that toValue does not hold).
Targets(ds, toValue, mappingValue, i) ==
    IF dimAt(ds, mappingValue[i]) # 0
    THEN {indexIn(toValue, x) : x \in Range(ds[dimAt(ds, mappingValue[i])].value)}
    ELSE {indexIn(toValue, mappingValue[i])}

\* The element of an array at position p counted from 0.
ElementAt(arr, p) == IF p + 1 <= Len(arr) THEN arr[p + 1] ELSE Hole

\* The largest element of a non-empty set of numbers.
Greatest(S) == CHOOSE n \in S : \A k \in S : k <= n

\* C19: mapping inversion does not abort; an empty mapping becomes the value
\* of the from-dimension, and in any other the entry at position p is the
\* from-index whose mapping token denotes position p of the to-dimension,
\* the positions that no token denotes staying unfilled.
C19_MappingsInverted ==
    [][ dpc = "expanded" =>
          /\ dpc' = "resolved"
          /\ \A f \in 1..Len(dims) : \A k \in 1..Len(dims[f].mappings) :
                LET mappingValue == dims[f].mappings[k].value
                    toValue == dims[dimAt(dims, dims[f].mappings[k].toDim)].value
                    inverted == dims'[f].mappings[k].value
                    hits(p) == {i \in 1..Len(dims[f].value) : p \in Targets(dims', toValue, mappingValue, i)}
                IN IF mappingValue = <<>>
                   THEN inverted = dims[f].value
                   ELSE /\ Len(inverted) <= Len(toValue)
                        /\ \A p \in 0..(Len(toValue) - 1) :
                              ElementAt(inverted, p) =
                                 IF hits(p) = {} THEN Hole ELSE dims[f].value[Greatest(hits(p))]
      ]_vars

(***************************************************************************)
(* varWithRefId                                                            *)
(***************************************************************************)
\* The name and the subscripts, in normal order, of the reference asked for.
AskedName == <<asked[1]>>

AskedSubscripts ==
    normalizeSubscripts(SelectSeq(SubSeq(asked, 2, Len(asked)),
                                  LAMBDA c : c \notin {"[", ",", "]"}))

\* A subscript of a variant covers a subscript of the reference.
CoversAt(s, r) ==
    \/ isIndex(s) /\ isIndex(r) /\ s = r
    \/ isDimension(s) /\ isDimension(r) /\ s = r
    \/ isDimension(s) /\ isIndex(r) /\ r \in Range(Dimensions[s])

\* The variant covers the reference asked for, position by position: the
\* two have the same positions, and at each of them the subscript of the
\* variant covers that of the reference.
Covers(id) ==
    /\ Len(heap[id].subscripts) = Len(AskedSubscripts)
    /\ \A pos \in 1..Len(heap[id].subscripts) :
          CoversAt(heap[id].subscripts[pos], AskedSubscripts[pos])

\* varWithRefId has returned, and the reference asked for is the refId of no variable.
AskedIsNoRefId == pc = "varWithRefId" /\ \A id \in Range(variables) : heap[id].refId # asked

\* The records of the name asked for, in insertion order.
Variants == varsWithName(variablesByName, AskedName)

\* C21: for a reference that is the refId of no variable, varWithRefId
\* returns the apply-to-all variable of the name when that is its only
\* record, else the first variant in insertion order whose subscripts cover
\* the reference position by position, and nothing when none does.
C21_FirstCoveringVariant ==
    AskedIsNoRefId =>
        IF Len(Variants) = 1 /\ asked[1] \notin DOMAIN nonAtoANames
        THEN returned = Variants[1]
        ELSE IF \E i \in 1..Len(Variants) : Covers(Variants[i])
        THEN \E i \in 1..Len(Variants) :
                /\ Covers(Variants[i])
                /\ \A j \in 1..(i - 1) : ~Covers(Variants[j])
                /\ returned = Variants[i]
        ELSE returned = 0

(***************************************************************************)
(* initVars                                                                *)
(***************************************************************************)
\* The variables that the variable depends on at init time.
InitDeps(id) ==
    LET refIds == IF heap[id].hasInitValue THEN heap[id].initReferences ELSE heap[id].references
    IN {varWithRefId(heap, variablesByName, refIds[i]) : i \in 1..Len(refIds)}

\* C24: the work-queue loop of sortInitVars terminates, whatever the
\* references of the table are.
C24_InitQueueDrains ==
    (pc = "initQueue") ~> (pc = "initQueue" /\ initQueue.vars = <<>> /\ poppedVar = 0)

\* C22: initVars() lists every variable with an initial value, and every
\* variable that a listed one depends on at init time, unless it is a const, a
\* lookup or a data variable, is listed before it.
C22_InitVarsInDependencyOrder ==
    pc = "initVars" =>
        /\ \A id \in Range(variables) : heap[id].hasInitValue => id \in Range(sorted)
        /\ \A k \in 1..Len(sorted) : \A d \in InitDeps(sorted[k]) :
              heap[d].varType \notin {"const", "lookup", "data"} =>
                  \E j \in 1..(k - 1) : sorted[j] = d

\* C23: resetModelState changes the analyzer's own tables only: the spec
\* object that was passed to the read before it, its inputVars list
\* included, is after the call what it was before.
C23_ResetLeavesSpecObject ==
    [][resets' = resets + 1 => spec' = spec]_vars

\* The type auxVars() or levelVars() was called for.
SortedType == IF pc = "auxVars" THEN "aux" ELSE "level"

\* The variables of the type that are on no edge of the dependency graph.
OnNoEdge(varType) ==
    {id \in OfType(varType) :
        \A e \in Range(depsGraph(heap, variables, variablesByName, varType)) :
            heap[id].refId \notin {e[1], e[2]}}

\* C25: for an acyclic graph auxVars() and levelVars() return a permutation
\* of the variables of the type, _time apart: each of them once, none of
\* another type, those on no edge first and in name order.
C25_SortedIsPermutationOfType ==
    pc \in {"auxVars", "levelVars"} =>
        LET n == Cardinality(OnNoEdge(SortedType))
        IN /\ Range(sorted) = OfType(SortedType)
           /\ Len(sorted) = Cardinality(OfType(SortedType))
           /\ {sorted[i] : i \in 1..n} = OnNoEdge(SortedType)
           /\ \A i, j \in 1..n :
                 i < j => WordRank(heap[sorted[i]].varName) <= WordRank(heap[sorted[j]].varName)

====
